---------------------------- MODULE Spec2Model ----------------------------
(***************************************************************************)
(* A model of the livestock preprocessing pipeline                         *)
(* (2_Scriptes/01_preprocess_livestock_data_generic_regions_v4g.py).       *)
(*                                                                         *)
(* Text is modelled as a sequence of one-character strings, so that the    *)
(* string operations of the source (strip, lower, replace, substring       *)
(* tests, regular-expression searches) are computed character by           *)
(* character, as Python computes them.                                     *)
(*                                                                         *)
(* Numbers are exact fixed-point numerators: the source's floating-point   *)
(* rounding is not modelled.  A missing number (NaN) is the empty tuple    *)
(* and a present number n is the one-element tuple <<n>>.                  *)
(***************************************************************************)
EXTENDS Integers, Sequences, FiniteSets, TLC

(***************************************************************************)
(* Python string primitives                                                *)
(***************************************************************************)
UpperLetters == <<"A","B","C","D","E","F","G","H","I","J","K","L","M","N","O","P","Q","R","S","T","U","V","W","X","Y","Z">>

LowerLetters == <<"a","b","c","d","e","f","g","h","i","j","k","l","m","n","o","p","q","r","s","t","u","v","w","x","y","z">>

DigitChars == {"0","1","2","3","4","5","6","7","8","9"}

\* The characters str.strip() and the regular expression \s treat as blank.
Whitespace == {" ", "\t"}

Letters == DOMAIN UpperLetters

UpperSet == { UpperLetters[i] : i \in Letters }

LowerSet == { LowerLetters[i] : i \in Letters }

\* Python's \w: letters, digits and the underscore.
WordChars == UpperSet \cup LowerSet \cup DigitChars \cup {"_"}

IsWordChar(c) == c \in WordChars

LowerOf == [c \in UpperSet |-> LowerLetters[CHOOSE i \in Letters : UpperLetters[i] = c]]

UpperOf == [c \in LowerSet |-> UpperLetters[CHOOSE i \in Letters : LowerLetters[i] = c]]

lower_char(c) == IF c \in UpperSet THEN LowerOf[c] ELSE c

upper_char(c) == IF c \in LowerSet THEN UpperOf[c] ELSE c

\* str.lower() and str.upper()
str_lower(s) == [i \in 1..Len(s) |-> lower_char(s[i])]

str_upper(s) == [i \in 1..Len(s) |-> upper_char(s[i])]

RECURSIVE str_lstrip(_)
str_lstrip(s) ==
    IF s # <<>> /\ Head(s) \in Whitespace THEN str_lstrip(Tail(s)) ELSE s

RECURSIVE str_rstrip(_)
str_rstrip(s) ==
    IF s # <<>> /\ s[Len(s)] \in Whitespace
    THEN str_rstrip(SubSeq(s, 1, Len(s) - 1))
    ELSE s

\* str.strip()
str_strip(s) == str_rstrip(str_lstrip(s))

\* s[i:i+len(sub)] == sub
MatchAt(s, sub, i) ==
    /\ i + Len(sub) - 1 <= Len(s)
    /\ SubSeq(s, i, i + Len(sub) - 1) = sub

\* sub in s
str_contains(s, sub) == \E i \in 1..(Len(s) - Len(sub) + 1) : MatchAt(s, sub, i)

\* s.startswith(sub)
str_startswith(s, sub) == MatchAt(s, sub, 1)

\* str.isdigit(): false for the empty string
str_isdigit(s) == s # <<>> /\ \A i \in 1..Len(s) : s[i] \in DigitChars

\* str.replace(old, new): leftmost non-overlapping occurrences (old non-empty)
RECURSIVE str_replace(_, _, _)
str_replace(s, old, new) ==
    IF s = <<>> THEN <<>>
    ELSE IF MatchAt(s, old, 1)
         THEN new \o str_replace(SubSeq(s, Len(old) + 1, Len(s)), old, new)
         ELSE <<Head(s)>> \o str_replace(Tail(s), old, new)

\* re.sub(r"\s+", " ", s)
RECURSIVE re_sub_spaces(_)
re_sub_spaces(s) ==
    IF s = <<>> THEN <<>>
    ELSE IF Head(s) \in Whitespace
         THEN <<" ">> \o re_sub_spaces(str_lstrip(s))
         ELSE <<Head(s)>> \o re_sub_spaces(Tail(s))

\* re.search(r"\bw\b", s) for a literal w that starts and ends with a word
\* character: an occurrence of w with no word character on either side.
re_search_word(s, w) ==
    \E i \in 1..(Len(s) - Len(w) + 1) :
        /\ MatchAt(s, w, i)
        /\ (i = 1 \/ ~IsWordChar(s[i - 1]))
        /\ (i + Len(w) - 1 = Len(s) \/ ~IsWordChar(s[i + Len(w)]))

digit_value(c) ==
    CASE c = "0" -> 0 [] c = "1" -> 1 [] c = "2" -> 2 [] c = "3" -> 3
      [] c = "4" -> 4 [] c = "5" -> 5 [] c = "6" -> 6 [] c = "7" -> 7
      [] c = "8" -> 8 [] c = "9" -> 9

\* int(s) for a string of digits
RECURSIVE str_to_int(_)
str_to_int(s) ==
    IF s = <<>> THEN 0
    ELSE 10 * str_to_int(SubSeq(s, 1, Len(s) - 1)) + digit_value(s[Len(s)])

\* The code points of the characters used, in increasing order: Python
\* compares strings by code point.
CodePointOrder ==
    <<"\t", " ", "(", ")", ",", "-">> \o
    <<"0","1","2","3","4","5","6","7","8","9">> \o
    UpperLetters \o <<"_">> \o LowerLetters

CodePointRank ==
    [c \in { CodePointOrder[i] : i \in DOMAIN CodePointOrder } |->
        CHOOSE i \in DOMAIN CodePointOrder : CodePointOrder[i] = c]

char_ord(c) == CodePointRank[c]

\* s < t for Python strings
RECURSIVE str_less(_, _)
str_less(s, t) ==
    IF t = <<>> THEN FALSE
    ELSE IF s = <<>> THEN TRUE
    ELSE IF Head(s) = Head(t) THEN str_less(Tail(s), Tail(t))
    ELSE char_ord(Head(s)) < char_ord(Head(t))

(***************************************************************************)
(* Reference data of the preprocessor                                      *)
(***************************************************************************)
ALL_ANIMALS_LIST ==
    <<
       <<"A","l","l"," ","a","n","i","m","a","l","s">>,
       <<"A","l","l"," ","a","n","i","m","a","l">>,
       <<"A","l","l"," ","l","i","v","e","s","t","o","c","k">>,
       <<"T","o","t","a","l"," ","a","n","i","m","a","l","s">>,
       <<"A","n","i","m","a","l","s",","," ","a","l","l">> >>

AGGREGATE_LIST ==
    <<
       <<"C","a","m","e","l","s"," ","a","n","d"," ","L","l","a","m","a","s">>,
       <<"C","a","t","t","l","e">>,
       <<"M","u","l","e","s"," ","a","n","d"," ","A","s","s","e","s">>,
       <<"P","o","u","l","t","r","y"," ","B","i","r","d","s">>,
       <<"S","h","e","e","p"," ","a","n","d"," ","G","o","a","t","s">>,
       <<"S","w","i","n","e">> >>

ATOMIC_LIST ==
    <<
       <<"A","s","s","e","s">>,
       <<"B","u","f","f","a","l","o">>,
       <<"C","a","m","e","l","s">>,
       <<"S","w","i","n","e",","," ","b","r","e","e","d","i","n","g">>,
       <<"S","w","i","n","e",","," ","m","a","r","k","e","t">>,
       <<"T","u","r","k","e","y","s">>,
       <<"C","a","t","t","l","e",","," ","d","a","i","r","y">>,
       <<"C","a","t","t","l","e",","," ","n","o","n","-","d","a","i","r","y">>,
       <<"C","h","i","c","k","e","n","s",","," ","b","r","o","i","l","e","r","s">>,
       <<"C","h","i","c","k","e","n","s",","," ","l","a","y","e","r","s">>,
       <<"D","u","c","k","s">>,
       <<"G","o","a","t","s">>,
       <<"H","o","r","s","e","s">>,
       <<"S","h","e","e","p">> >>

\* {s.lower() for s in [...]}
EXCLUDE_ITEMS ==
    { str_lower(s) : s \in {
       <<"C","h","i","c","k","e","n","s">>,
       <<"M","u","l","e","s"," ","a","n","d"," ","h","i","n","n","i","e","s">>,
       <<"(","b","l","a","n","k",")">>,
       <<>> } }

EU ==
    {
      <<"A","u","s","t","r","i","a">>,
      <<"B","e","l","g","i","u","m">>,
      <<"B","u","l","g","a","r","i","a">>,
      <<"C","r","o","a","t","i","a">>,
      <<"C","y","p","r","u","s">>,
      <<"C","z","e","c","h"," ","R","e","p","u","b","l","i","c">>,
      <<"C","z","e","c","h","i","a">>,
      <<"D","e","n","m","a","r","k">>,
      <<"E","s","t","o","n","i","a">>,
      <<"F","i","n","l","a","n","d">>,
      <<"F","r","a","n","c","e">>,
      <<"G","e","r","m","a","n","y">>,
      <<"G","r","e","e","c","e">>,
      <<"H","u","n","g","a","r","y">>,
      <<"I","r","e","l","a","n","d">>,
      <<"I","t","a","l","y">>,
      <<"L","a","t","v","i","a">>,
      <<"L","i","t","h","u","a","n","i","a">>,
      <<"L","u","x","e","m","b","o","u","r","g">>,
      <<"M","a","l","t","a">>,
      <<"N","e","t","h","e","r","l","a","n","d","s">>,
      <<"P","o","l","a","n","d">>,
      <<"P","o","r","t","u","g","a","l">>,
      <<"R","o","m","a","n","i","a">>,
      <<"S","l","o","v","a","k","i","a">>,
      <<"S","l","o","v","e","n","i","a">>,
      <<"S","p","a","i","n">>,
      <<"S","w","e","d","e","n">> }

\* A faulty variant of EEA_PLUS_UK: the EU members are left out.
EEA_PLUS_UK_without_EU ==
    {
      <<"I","c","e","l","a","n","d">>,
      <<"L","i","e","c","h","t","e","n","s","t","e","i","n">>,
      <<"N","o","r","w","a","y">>,
      <<"U","n","i","t","e","d"," ","K","i","n","g","d","o","m">>,
      <<"U","K">> }

EEA_PLUS_UK ==
    EU \cup {
      <<"I","c","e","l","a","n","d">>,
      <<"L","i","e","c","h","t","e","n","s","t","e","i","n">>,
      <<"N","o","r","w","a","y">>,
      <<"U","n","i","t","e","d"," ","K","i","n","g","d","o","m">>,
      <<"U","K">> }

EUROPE_WIDE ==
    {
      <<"A","l","b","a","n","i","a">>,
      <<"A","n","d","o","r","r","a">>,
      <<"A","r","m","e","n","i","a">>,
      <<"A","u","s","t","r","i","a">>,
      <<"A","z","e","r","b","a","i","j","a","n">>,
      <<"B","e","l","a","r","u","s">>,
      <<"B","e","l","g","i","u","m">>,
      <<"B","o","s","n","i","a"," ","a","n","d"," ","H","e","r","z","e","g","o","v","i","n","a">>,
      <<"B","u","l","g","a","r","i","a">>,
      <<"C","r","o","a","t","i","a">>,
      <<"C","y","p","r","u","s">>,
      <<"C","z","e","c","h"," ","R","e","p","u","b","l","i","c">>,
      <<"C","z","e","c","h","i","a">>,
      <<"D","e","n","m","a","r","k">>,
      <<"E","s","t","o","n","i","a">>,
      <<"F","i","n","l","a","n","d">>,
      <<"F","r","a","n","c","e">>,
      <<"G","e","o","r","g","i","a">>,
      <<"G","e","r","m","a","n","y">>,
      <<"G","r","e","e","c","e">>,
      <<"H","u","n","g","a","r","y">>,
      <<"I","c","e","l","a","n","d">>,
      <<"I","r","e","l","a","n","d">>,
      <<"I","t","a","l","y">>,
      <<"K","a","z","a","k","h","s","t","a","n">>,
      <<"K","o","s","o","v","o">>,
      <<"L","a","t","v","i","a">>,
      <<"L","i","e","c","h","t","e","n","s","t","e","i","n">>,
      <<"L","i","t","h","u","a","n","i","a">>,
      <<"L","u","x","e","m","b","o","u","r","g">>,
      <<"M","a","l","t","a">>,
      <<"M","o","l","d","o","v","a">>,
      <<"M","o","n","a","c","o">>,
      <<"M","o","n","t","e","n","e","g","r","o">>,
      <<"N","e","t","h","e","r","l","a","n","d","s">>,
      <<"N","o","r","t","h"," ","M","a","c","e","d","o","n","i","a">>,
      <<"N","o","r","w","a","y">>,
      <<"P","o","l","a","n","d">>,
      <<"P","o","r","t","u","g","a","l">>,
      <<"R","o","m","a","n","i","a">>,
      <<"R","u","s","s","i","a">>,
      <<"S","a","n"," ","M","a","r","i","n","o">>,
      <<"S","e","r","b","i","a">>,
      <<"S","l","o","v","a","k","i","a">>,
      <<"S","l","o","v","e","n","i","a">>,
      <<"S","p","a","i","n">>,
      <<"S","w","e","d","e","n">>,
      <<"S","w","i","t","z","e","r","l","a","n","d">>,
      <<"T","u","r","k","e","y">>,
      <<"U","K">>,
      <<"U","k","r","a","i","n","e">>,
      <<"U","n","i","t","e","d"," ","K","i","n","g","d","o","m">>,
      <<"V","a","t","i","c","a","n"," ","C","i","t","y">> }

(***************************************************************************)
(* Pure helpers of the preprocessor                                        *)
(***************************************************************************)
\* Column names of the form Y<digits>, in column order.
\* A faulty variant of IsYearCol: the digits after the Y are not checked.
IsYearCol_prefix_only(c) == str_startswith(c, <<"Y">>)

IsYearCol(c) == str_startswith(c, <<"Y">>) /\ str_isdigit(Tail(c))

detect_year_cols(cols) == SelectSeq(cols, IsYearCol)

\* "Stocks", "CH4", "N2O", or "None" for an unrecognized element.
normalize_element(e) ==
    LET s == str_lower(str_strip(e)) IN
    IF s = <<"s","t","o","c","k">> \/ s = <<"s","t","o","c","k","s">> \/ re_search_word(s, <<"s","t","o","c","k">>)
    THEN "Stocks"
    ELSE IF re_search_word(s, <<"c","h","4">>) \/ re_search_word(s, <<"m","e","t","h","a","n","e">>)
    THEN "CH4"
    ELSE IF re_search_word(s, <<"n","2","o">>) \/ re_search_word(s, <<"n","i","t","r","o","u","s">>)
    THEN "N2O"
    ELSE "None"

\* The (CH4, N2O) factors in tenths: 27.2 is 272.
GWP_TABLE(name) ==
    CASE name = <<"A","R","4">>       -> <<250, 2980>>
      [] name = <<"A","R","5">>       -> <<280, 2650>>
      [] name = <<"A","R","6","_","N","O","C","C","F">> -> <<272, 2730>>
      [] name = <<"A","R","6","_","C","C","F">>   -> <<298, 2730>>
      [] OTHER                -> <<272, 2730>>

\* A faulty variant of gwp_pair: the name is looked up as given.
gwp_pair_exact_name(name) == GWP_TABLE(name)

gwp_pair(name) == GWP_TABLE(str_upper(str_strip(name)))

\* re.compile(r"\bnon-?dairy\b")
non_dairy_pat(low) ==
    re_search_word(low, <<"n","o","n","-","d","a","i","r","y">>) \/ re_search_word(low, <<"n","o","n","d","a","i","r","y">>)

\* re.compile(r"\bdairy\b")
dairy_pat(low) == re_search_word(low, <<"d","a","i","r","y">>)

\* re.compile(r"\bother\b")
other_pat(low) == re_search_word(low, <<"o","t","h","e","r">>)

\* A faulty variant of canonical_item: "dairy" is tested before "non-dairy".
canonical_item_dairy_first(item) ==
    LET s   == str_strip(item)
        low == re_sub_spaces(str_replace(str_lower(s), <<"n","o","n"," ","d","a","i","r","y">>, <<"n","o","n","-","d","a","i","r","y">>))
    IN  IF str_contains(low, <<"c","a","t","t","l","e">>) \/ str_contains(low, <<"b","o","v","i","n","e">>)
        THEN IF dairy_pat(low) THEN <<"C","a","t","t","l","e",","," ","d","a","i","r","y">>
             ELSE IF non_dairy_pat(low) \/ other_pat(low) THEN <<"C","a","t","t","l","e",","," ","n","o","n","-","d","a","i","r","y">>
             ELSE <<"C","a","t","t","l","e">>
        ELSE s

canonical_item(item) ==
    LET s   == str_strip(item)
        low == re_sub_spaces(str_replace(str_lower(s), <<"n","o","n"," ","d","a","i","r","y">>, <<"n","o","n","-","d","a","i","r","y">>))
    IN  IF str_contains(low, <<"c","a","t","t","l","e">>) \/ str_contains(low, <<"b","o","v","i","n","e">>)
        THEN IF non_dairy_pat(low) \/ other_pat(low) THEN <<"C","a","t","t","l","e",","," ","n","o","n","-","d","a","i","r","y">>
             ELSE IF dairy_pat(low) THEN <<"C","a","t","t","l","e",","," ","d","a","i","r","y">>
             ELSE <<"C","a","t","t","l","e">>
        ELSE s

\* {x.lower() for x in list}
Lowered(list) == { str_lower(list[i]) : i \in DOMAIN list }

ALL_ANIMALS_LOWER == Lowered(ALL_ANIMALS_LIST)

AGGREGATE_LOWER == Lowered(AGGREGATE_LIST)

ATOMIC_LOWER == Lowered(ATOMIC_LIST)

\* A faulty variant of item_kind: no fallback for an unmatched label.
item_kind_no_fallback(label) ==
    LET low == str_lower(canonical_item(label)) IN
    IF low \in ALL_ANIMALS_LOWER THEN "All"
    ELSE IF low \in AGGREGATE_LOWER THEN "aggregated"
    ELSE IF low \in ATOMIC_LOWER THEN "atomic"
    ELSE "None"

item_kind(label) ==
    LET low == str_lower(canonical_item(label)) IN
    IF low \in ALL_ANIMALS_LOWER THEN "All"
    ELSE IF low \in AGGREGATE_LOWER THEN "aggregated"
    ELSE IF low \in ATOMIC_LOWER THEN "atomic"
    ELSE "atomic"

\* The LSU weight in hundredths: 0.8 is 80.
default_lsu_weight(item) ==
    LET il == str_lower(canonical_item(item)) IN
    IF str_contains(il, <<"d","a","i","r","y">>) /\ str_contains(il, <<"c","a","t","t","l","e">>) THEN 100
    ELSE IF str_contains(il, <<"c","a","t","t","l","e">>) THEN 80
    ELSE IF str_contains(il, <<"b","u","f","f","a","l","o">>) THEN 100
    ELSE IF str_contains(il, <<"s","h","e","e","p">>) \/ str_contains(il, <<"g","o","a","t">>) THEN 10
    ELSE IF str_contains(il, <<"p","i","g">>) \/ str_contains(il, <<"s","w","i","n","e">>) THEN 30
    ELSE IF \/ str_contains(il, <<"p","o","u","l","t","r","y">>) \/ str_contains(il, <<"c","h","i","c","k","e","n">>)
            \/ str_contains(il, <<"t","u","r","k","e","y">>) \/ str_contains(il, <<"d","u","c","k">>) THEN 1
    ELSE IF str_contains(il, <<"h","o","r","s","e">>) \/ str_contains(il, <<"e","q","u","i","d">>) THEN 80
    ELSE 100

\* A faulty variant of is_livestock_total_element: "livestock" has to come
\* before "total".
is_livestock_total_element_in_order(label) ==
    LET s == str_lower(label) IN
    \E i \in 1..Len(s) :
        /\ MatchAt(s, <<"l","i","v","e","s","t","o","c","k">>, i)
        /\ str_contains(SubSeq(s, i + 9, Len(s)), <<"t","o","t","a","l">>)

is_livestock_total_element(label) ==
    LET s == str_lower(label) IN
    str_contains(s, <<"l","i","v","e","s","t","o","c","k">>) /\ str_contains(s, <<"t","o","t","a","l">>)

\* A faulty variant of region_flags: the EU flag comes first.
region_flags_eu_first(area) ==
    LET a == str_strip(area) IN <<a \in EU, a \in EUROPE_WIDE, a \in EEA_PLUS_UK>>

\* <<region_europe, region_EU, region_EUEEAUK>>
region_flags(area) ==
    LET a == str_strip(area) IN <<a \in EUROPE_WIDE, a \in EU, a \in EEA_PLUS_UK>>

\* str(x).strip().lower() in {"1", "true", "yes", "y"}
parse_flag(x) == str_lower(str_strip(x)) \in {<<"1">>, <<"t","r","u","e">>, <<"y","e","s">>, <<"y">>}

(***************************************************************************)
(* Numbers and tables                                                      *)
(*                                                                         *)
(* A cell of a year column is NaN (<<>>) or a number (<<n>>).  Values are  *)
(* exact numerators: a Stocks value is in units, a CH4_CO2e, N2O_CO2e or   *)
(* Total_CO2e value in tenths (the GWP factors are in tenths), and an LSU  *)
(* value in ten-thousandths (the dairy fraction and the LSU weights are    *)
(* both in hundredths).                                                    *)
(***************************************************************************)
NaN == <<>>

Num(n) == <<n>>

\* Series * scalar: NaN stays NaN
Times(v, k) == IF v = NaN THEN NaN ELSE Num(v[1] * k)

\* Series.sum() of a group: NaN is skipped, an all-NaN group sums to 0
RECURSIVE SumValues(_)
SumValues(tab) ==
    IF tab = <<>> THEN 0
    ELSE (IF Head(tab).Value = NaN THEN 0 ELSE Head(tab).Value[1]) + SumValues(Tail(tab))

\* The elements of s in the order of their places pos.
Permuted(s, pos) == [p \in 1..Len(s) |-> s[CHOOSE i \in 1..Len(s) : pos[i] = p]]

RECURSIVE Concat(_)
Concat(tables) ==
    IF tables = <<>> THEN <<>> ELSE Head(tables) \o Concat(Tail(tables))

\* The grouping columns of every groupby and of the merge of main().
GroupKey(r) ==
    [Area |-> r.Area, Item |-> r.Item, Year |-> r.Year, item_kind |-> r.item_kind,
     is_all |-> r.is_all, is_aggregated |-> r.is_aggregated, is_atomic |-> r.is_atomic]

KindOrder == <<"All", "aggregated", "atomic">>

KindRank(k) == CHOOSE i \in DOMAIN KindOrder : KindOrder[i] = k

BoolRank(b) == IF b THEN 1 ELSE 0

\* The order in which groupby(sort=True) and an outer merge list their keys.
GroupKeyLess(a, b) ==
    IF a.Area # b.Area THEN str_less(a.Area, b.Area)
    ELSE IF a.Item # b.Item THEN str_less(a.Item, b.Item)
    ELSE IF a.Year # b.Year THEN a.Year < b.Year
    ELSE IF a.item_kind # b.item_kind THEN KindRank(a.item_kind) < KindRank(b.item_kind)
    ELSE IF a.is_all # b.is_all THEN BoolRank(a.is_all) < BoolRank(b.is_all)
    ELSE IF a.is_aggregated # b.is_aggregated
         THEN BoolRank(a.is_aggregated) < BoolRank(b.is_aggregated)
    ELSE BoolRank(a.is_atomic) < BoolRank(b.is_atomic)

\* The keys in increasing order.  The place of a key in the stable sort is
\* after the keys below it and the earlier ones not above it.
SortedKeys(keys) ==
    Permuted(keys,
        [i \in 1..Len(keys) |->
            Cardinality({ j \in 1..Len(keys) :
                \/ GroupKeyLess(keys[j], keys[i])
                \/ (j < i /\ ~GroupKeyLess(keys[i], keys[j])) }) + 1])

RECURSIVE DistinctKeys(_)
DistinctKeys(keys) ==
    IF keys = <<>> THEN <<>>
    ELSE <<Head(keys)>> \o
         DistinctKeys(SelectSeq(Tail(keys), LAMBDA k : k # Head(keys)))

KeysOf(tab) == [i \in 1..Len(tab) |-> GroupKey(tab[i])]

WithValue(k, v) ==
    [Area |-> k.Area, Item |-> k.Item, Year |-> k.Year, Value |-> v,
     item_kind |-> k.item_kind, is_all |-> k.is_all,
     is_aggregated |-> k.is_aggregated, is_atomic |-> k.is_atomic]

\* tab.groupby([...], as_index=False)["Value"].sum()
GroupSum(tab) ==
    LET keys == SortedKeys(DistinctKeys(KeysOf(tab))) IN
    [g \in 1..Len(keys) |->
        WithValue(keys[g],
                  Num(SumValues(SelectSeq(tab, LAMBDA r : GroupKey(r) = keys[g]))))]

WithMetric(r, m) ==
    [Area |-> r.Area, Item |-> r.Item, Year |-> r.Year, Value |-> r.Value,
     item_kind |-> r.item_kind, is_all |-> r.is_all,
     is_aggregated |-> r.is_aggregated, is_atomic |-> r.is_atomic, Metric |-> m]

Tagged(tab, m) == [i \in 1..Len(tab) |-> WithMetric(tab[i], m)]

(***************************************************************************)
(* Inputs                                                                  *)
(***************************************************************************)
\* The largest number of data rows of an input CSV.
MaxRows == 2

\* The data rows an input CSV is made of.  v1 and v2 are the cells of the
\* first and second column that is not Area, Item or Element.
InputRows == <<
    [Area |-> <<"A","u","s","t","r","i","a">>, Item |-> <<"C","a","t","t","l","e">>, Element |-> <<"S","t","o","c","k">>,
     v1 |-> Num(100), v2 |-> Num(40)],
    [Area |-> <<"A","u","s","t","r","i","a">>, Item |-> <<"C","a","t","t","l","e",","," ","d","a","i","r","y">>, Element |-> <<"S","t","o","c","k">>,
     v1 |-> Num(10), v2 |-> NaN],
    [Area |-> <<"A","u","s","t","r","i","a">>, Item |-> <<" ","c","a","t","t","l","e">>, Element |-> <<"S","t","o","c","k","s">>,
     v1 |-> Num(7), v2 |-> Num(3)],
    [Area |-> <<"N","o","r","w","a","y">>, Item |-> <<"D","a","i","r","y"," ","c","a","t","t","l","e">>, Element |-> <<"S","t","o","c","k","s">>,
     v1 |-> Num(20), v2 |-> Num(5)],
    [Area |-> <<"N","o","r","w","a","y"," ">>, Item |-> <<"C","a","t","t","l","e">>, Element |-> <<"S","t","o","c","k","s">>,
     v1 |-> Num(50), v2 |-> Num(60)],
    [Area |-> <<"A","u","s","t","r","i","a">>, Item |-> <<"C","a","t","t","l","e",","," ","n","o","n","-","d","a","i","r","y">>, Element |-> <<"S","t","o","c","k","s">>,
     v1 |-> Num(30), v2 |-> Num(30)],
    [Area |-> <<"A","u","s","t","r","i","a">>, Item |-> <<"S","h","e","e","p">>, Element |-> <<"S","t","o","c","k","s">>,
     v1 |-> Num(30), v2 |-> Num(2)],
    [Area |-> <<"P","e","r","u">>, Item |-> <<"A","l","l"," ","a","n","i","m","a","l","s">>,
     Element |-> <<"L","i","v","e","s","t","o","c","k"," ","t","o","t","a","l"," ","(","E","m","i","s","s","i","o","n","s"," ","C","H","4",")">>,
     v1 |-> Num(5), v2 |-> Num(6)],
    [Area |-> <<"A","u","s","t","r","i","a">>, Item |-> <<"C","a","t","t","l","e">>,
     Element |-> <<"L","i","v","e","s","t","o","c","k"," ","t","o","t","a","l"," ","(","E","m","i","s","s","i","o","n","s"," ","C","H","4",")">>,
     v1 |-> Num(2), v2 |-> Num(3)],
    [Area |-> <<"A","u","s","t","r","i","a">>, Item |-> <<"C","a","t","t","l","e">>,
     Element |-> <<"L","i","v","e","s","t","o","c","k"," ","t","o","t","a","l"," ","(","E","m","i","s","s","i","o","n","s"," ","N","2","O",")">>,
     v1 |-> Num(1), v2 |-> NaN],
    [Area |-> <<"A","u","s","t","r","i","a">>, Item |-> <<"C","a","t","t","l","e">>,
     Element |-> <<"E","n","t","e","r","i","c"," ","f","e","r","m","e","n","t","a","t","i","o","n"," ","(","E","m","i","s","s","i","o","n","s"," ","C","H","4",")">>,
     v1 |-> Num(4), v2 |-> Num(4)],
    [Area |-> <<"S","w","i","t","z","e","r","l","a","n","d">>, Item |-> <<"C","H","I","C","K","E","N","S"," ">>, Element |-> <<"S","t","o","c","k","s">>,
     v1 |-> Num(9), v2 |-> Num(9)],
    [Area |-> <<"P","e","r","u">>, Item |-> <<"L","l","a","m","a","s">>, Element |-> <<"M","i","l","k"," ","y","i","e","l","d">>,
     v1 |-> Num(1), v2 |-> Num(1)],
    [Area |-> <<"P","e","r","u">>, Item |-> <<"L","l","a","m","a","s">>, Element |-> <<"S","t","o","c","k","s">>,
     v1 |-> Num(8), v2 |-> NaN],
    [Area |-> <<"P","e","r","u">>, Item |-> <<"A","l","l"," ","a","n","i","m","a","l","s">>,
     Element |-> <<"T","O","T","A","L",","," ","l","i","v","e","s","t","o","c","k"," ","(","N","2","O",")">>,
     v1 |-> Num(3), v2 |-> Num(1)] >>

\* The header rows an input CSV can have: each column with the field of an
\* InputRows entry that fills it.
InputHeaders == {
    << <<<<"A","r","e","a">>, "Area">>, <<<<"I","t","e","m">>, "Item">>, <<<<"E","l","e","m","e","n","t">>, "Element">>,
       <<<<"Y","2","0","2","0">>, "v1">> >>,
    << <<<<"I","t","e","m">>, "Item">>, <<<<"A","r","e","a">>, "Area">>, <<<<"E","l","e","m","e","n","t">>, "Element">>,
       <<<<"Y","2","0","2","0">>, "v1">>, <<<<"Y","2","0","x">>, "v1">>, <<<<"Y","2","0","2","1">>, "v2">> >>,
    << <<<<"A","r","e","a">>, "Area">>, <<<<"I","t","e","m">>, "Item">>, <<<<"E","l","e","m","e","n","t">>, "Element">>,
       <<<<"Y","e","a","r">>, "v1">>, <<<<"Y">>, "v2">> >>,
    << <<<<"A","r","e","a">>, "Area">>, <<<<"E","l","e","m","e","n","t">>, "Element">>,
       <<<<"Y","2","0","2","0">>, "v1">>, <<<<"Y","2","0","2","1">>, "v2">> >>,
    << <<<<"I","t","e","m">>, "Item">>, <<<<"Y","2","0","2","0">>, "v1">>, <<<<"Y","2","0","2","1">>, "v2">> >>,
    << <<<<"A","r","e","a">>, "Area">>, <<<<"I","t","e","m">>, "Item">>, <<<<"Y","e","a","r">>, "v1">> >> }

\* The tables of at most MaxRows rows, up to the order of the rows (the
\* output is sorted, so the order of the input rows does not reach it).
InputTables ==
    UNION { { t \in [1..n -> DOMAIN InputRows] :
                \A i \in 1..(n - 1) : t[i] <= t[i + 1] } : n \in 0..MaxRows }

ColumnNames(h) == [k \in DOMAIN h |-> h[k][1]]

\* The field of an InputRows entry that fills column c under header h.
FieldOf(h, c) == h[CHOOSE k \in DOMAIN h : h[k][1] = c][2]

\* pd.read_csv: one function from column name to cell per data row.
CsvRows(h, t) ==
    [i \in 1..Len(t) |->
        [c \in { h[k][1] : k \in DOMAIN h } |-> InputRows[t[i]][FieldOf(h, c)]]]

\* The command lines.  --input is fixed.  --gwp reaches only the gas metrics
\* and --split-cattle and --dairy-share only LSU, so each family varies on
\* the defaults of the other, both with --only-livestock-total on and off;
\* --dairy-share is read only when splitting; --output reaches only the file
\* system and varies on the default options.
InputPath == <<"d","a","t","a","/","r","a","w",".","c","s","v">>

DefaultArgs ==
    [input |-> InputPath, output |-> <<>>, gwp |-> <<"A","R","6","_","N","O","C","C","F">>,
     split_cattle |-> <<"t","r","u","e">>, dairy_share |-> 35,
     only_livestock_total |-> <<"t","r","u","e">>]

ArgSets ==
    { [DefaultArgs EXCEPT !.gwp = g, !.only_livestock_total = lt] :
        g \in {<<"A","R","6","_","N","O","C","C","F">>, <<" ","a","r","4">>, <<"A","R","5">>, <<"A","r","6","_","c","c","f">>, <<"S","A","R">>},
        lt \in {<<"t","r","u","e">>, <<"f","a","l","s","e">>} }
    \cup
    { [DefaultArgs EXCEPT !.split_cattle = s[1], !.dairy_share = s[2],
                          !.only_livestock_total = lt] :
        s \in {<<<<"t","r","u","e">>, 35>>, <<<<"t","r","u","e">>, -5>>, <<<<"t","r","u","e">>, 150>>,
               <<<<"f","a","l","s","e">>, 35>>},
        lt \in {<<"t","r","u","e">>, <<"f","a","l","s","e">>} }
    \cup
    { [DefaultArgs EXCEPT !.output = <<"n","e","w","/","p","r","e","p","a","r","e","d",".","c","s","v">>] }

(***************************************************************************)
(* State                                                                   *)
(***************************************************************************)
VARIABLES
    args,           \* the parsed command line
    input_exists,   \* whether the --input file exists
    columns,        \* the header of the input CSV
    rows,           \* the data rows of the input CSV
    fs_dirs,        \* the directories that exist
    out_file,       \* the output CSV: whether main() wrote it, and its rows
    pc,             \* the position of main()
    exit_msg,       \* the message of sys.exit, once main() has exited
    df,             \* the wide table
    year_cols,      \* the detected year columns
    long,           \* the melted table
    prepared,       \* the list of metric tables
    label,          \* an Item label given to the canonicalizer
    canon_pc,       \* how often the canonicalizer was applied to it
    canon_once,     \* canonical_item(label)
    canon_twice,    \* canonical_item(canonical_item(label))
    element,        \* an Element label given to normalize_element
    element_pc,     \* whether normalize_element was applied to it
    element_norm,   \* normalize_element(element)
    filter_args,         \* the filter tool: its parsed command line
    filter_input_exists, \* the filter tool: whether its --input file exists
    filter_columns,      \* the filter tool: the header of its input CSV
    filter_rows,         \* the filter tool: the data rows of its input CSV
    filter_pc,           \* the filter tool: the position of its main()
    filter_exit_msg,     \* the filter tool: the message of sys.exit
    filter_out_file,     \* the filter tool: the output CSV
    dash_path_exists,    \* the dashboard: whether DEFAULT_PREPARED exists
    dash_uploaded,       \* the dashboard: whether a CSV was uploaded
    dash_columns,        \* the dashboard: the columns of the CSV it is given
    dash_has_rows,       \* the dashboard: whether the CSV has rows in scope
    dash_pc,             \* the dashboard: the position of the script run
    dash_msg,            \* the dashboard: the error shown, if any
    dash_tabs,           \* the dashboard: whether st.tabs was called
    items_data,          \* the item section: the (Item, item_kind) rows of df
    kind_value,          \* the item section: the chosen item group
    kind_changed,        \* the item section: whether the run saw a new group
    session_items,       \* st.session_state[ITEMS_KEY]
    session_has_items,   \* whether ITEMS_KEY is in st.session_state
    session_last_kind,   \* st.session_state["last_kind_value"]
    preset_base,         \* the country section: base, the filtered rows
    preset_mode,         \* the country section: mode
    preset_choice,       \* the country section: preset_choice
    add_ch,              \* the country section: add_ch
    preset_keep,         \* the country section: keep
    preset_shown,        \* the country section: the Areas of totals
    preset_pc,           \* the country section: where the run stands
    years_data,          \* the year defaults: the values of df["Year"]
    years_floor,         \* the year defaults: the script's earliest default start
    year_min,            \* year_min
    year_max,            \* year_max
    default_start,       \* DEFAULT_START
    default_end,         \* DEFAULT_END
    year_range,          \* the value the "Year range" slider is given
    year_pie,            \* the value the "Pie year" slider is given
    year_map,            \* the value the "Map year" slider is given
    years_pc             \* the year defaults: where the run stands

main_vars == <<args, input_exists, columns, rows, fs_dirs, out_file, pc, exit_msg,
               df, year_cols, long, prepared>>

canon_vars == <<label, canon_pc, canon_once, canon_twice>>

element_vars == <<element, element_pc, element_norm>>

filter_vars == <<filter_args, filter_input_exists, filter_columns, filter_rows,
                 filter_pc, filter_exit_msg, filter_out_file>>

dash_vars == <<dash_path_exists, dash_uploaded, dash_columns, dash_has_rows,
               dash_pc, dash_msg, dash_tabs>>

items_vars == <<items_data, kind_value, kind_changed, session_items,
                session_has_items, session_last_kind>>

preset_vars == <<preset_base, preset_mode, preset_choice, add_ch, preset_keep,
                 preset_shown, preset_pc>>

years_vars == <<years_data, years_floor, year_min, year_max, default_start,
                default_end, year_range, year_pie, year_map, years_pc>>

\* The variables main() does not touch.
aux_vars == <<canon_vars, element_vars, filter_vars, dash_vars, items_vars, preset_vars, years_vars>>

vars == <<main_vars, aux_vars>>

\* normalize_element is not being run on its own.
ElementIdle ==
    /\ element = <<>>
    /\ element_pc = "off"
    /\ element_norm = "None"

\* The filter tool is not running.
FilterIdle ==
    /\ filter_args = [input |-> <<>>, output |-> <<>>, drop_zero |-> FALSE]
    /\ filter_input_exists = FALSE
    /\ filter_columns = <<>>
    /\ filter_rows = <<>>
    /\ filter_pc = "off"
    /\ filter_exit_msg = "running"
    /\ filter_out_file = [written |-> FALSE, columns |-> <<>>, rows |-> <<>>]

\* The dashboard is not running.
DashIdle ==
    /\ dash_path_exists = FALSE
    /\ dash_uploaded = FALSE
    /\ dash_columns = {}
    /\ dash_has_rows = FALSE
    /\ dash_pc = "off"
    /\ dash_msg = [kind |-> "none", cols |-> <<>>]
    /\ dash_tabs = FALSE

\* The year defaults of the dashboard are not being computed.
YearsIdle ==
    /\ years_data = {}
    /\ years_floor = 0
    /\ year_min = 0
    /\ year_max = 0
    /\ default_start = 0
    /\ default_end = 0
    /\ year_range = <<>>
    /\ year_pie = 0
    /\ year_map = 0
    /\ years_pc = "idle"

\* The country section of the dashboard is not running.
PresetIdle ==
    /\ preset_base = <<>>
    /\ preset_mode = "None"
    /\ preset_choice = "None"
    /\ add_ch = FALSE
    /\ preset_keep = <<>>
    /\ preset_shown = {}
    /\ preset_pc = "idle"

\* The item section of the dashboard is not running.
ItemsIdle ==
    /\ items_data = <<>>
    /\ kind_value = "None"
    /\ kind_changed = FALSE
    /\ session_items = <<>>
    /\ session_has_items = FALSE
    /\ session_last_kind = "None"

COL_AREA == <<"A","r","e","a">>

COL_ITEM == <<"I","t","e","m">>

COL_ELEMENT == <<"E","l","e","m","e","n","t">>

DEFAULT_OUTPUT_NAME == <<"l","i","v","e","s","t","o","c","k","_","P","R","E","P","A","R","E","D","_","l","o","n","g",".","c","s","v">>

NoExit == [kind |-> "running", cols |-> <<>>]

\* Path.parent: the path without its last component
RECURSIVE path_parent(_)
path_parent(p) ==
    IF p = <<>> THEN <<".">>
    ELSE IF p[Len(p)] = "/" THEN SubSeq(p, 1, Len(p) - 1)
    ELSE path_parent(SubSeq(p, 1, Len(p) - 1))

\* outp of main()
OutputPath(a) ==
    IF a.output # <<>> THEN a.output
    ELSE path_parent(a.input) \o <<"/">> \o DEFAULT_OUTPUT_NAME

split_cattle == parse_flag(args.split_cattle)

only_lt == parse_flag(args.only_livestock_total)

\* A faulty variant of dairy_frac: the share is not clamped.
dairy_frac_unclamped == args.dairy_share

\* max(0.0, min(1.0, dairy_share / 100.0)), in hundredths
dairy_frac ==
    IF args.dairy_share < 0 THEN 0
    ELSE IF args.dairy_share > 100 THEN 100
    ELSE args.dairy_share

GWP_CH4 == gwp_pair(args.gwp)[1]

GWP_N2O == gwp_pair(args.gwp)[2]

Init ==
    /\ args \in ArgSets
    /\ input_exists \in BOOLEAN
    /\ IF input_exists
       THEN \E h \in InputHeaders, t \in InputTables :
               /\ columns = ColumnNames(h)
               /\ rows = CsvRows(h, t)
       ELSE columns = <<>> /\ rows = <<>>
    /\ fs_dirs = {path_parent(InputPath)}
    /\ out_file = [written |-> FALSE, rows |-> <<>>]
    /\ pc = "start"
    /\ exit_msg = NoExit
    /\ df = <<>>
    /\ year_cols = <<>>
    /\ long = <<>>
    /\ prepared = <<>>
    /\ label = <<>>
    /\ canon_pc = "off"
    /\ canon_once = <<>>
    /\ canon_twice = <<>>
    /\ ElementIdle
    /\ FilterIdle
    /\ DashIdle
    /\ ItemsIdle
    /\ PresetIdle
    /\ YearsIdle

(***************************************************************************)
(* main(), stage by stage                                                  *)
(***************************************************************************)
Exit(kind, cols) ==
    /\ pc' = "exit"
    /\ exit_msg' = [kind |-> kind, cols |-> cols]

\* if not inp.exists(): sys.exit(...)
ExitInputNotFound ==
    /\ pc = "start"
    /\ ~input_exists
    /\ Exit("Input not found", <<>>)
    /\ UNCHANGED aux_vars
    /\ UNCHANGED <<args, input_exists, columns, rows, fs_dirs, out_file,
                   df, year_cols, long, prepared>>

\* outp.parent.mkdir(parents=True, exist_ok=True); df = pd.read_csv(inp)
OpenInput ==
    /\ pc = "start"
    /\ input_exists
    /\ fs_dirs' = fs_dirs \cup {path_parent(OutputPath(args))}
    /\ df' = rows
    /\ pc' = "opened"
    /\ UNCHANGED aux_vars
    /\ UNCHANGED <<args, input_exists, columns, rows, out_file, exit_msg,
                   year_cols, long, prepared>>

REQUIRED == {COL_AREA, COL_ITEM, COL_ELEMENT}

ColumnSet == { columns[k] : k \in DOMAIN columns }

\* required.difference(df.columns)
MissingColumns == REQUIRED \ ColumnSet

\* sorted(missing)
SortedMissing ==
    SelectSeq(<<COL_AREA, COL_ELEMENT, COL_ITEM>>, LAMBDA c : c \in MissingColumns)

\* if missing: sys.exit(...)
ExitMissingColumns ==
    /\ pc = "opened"
    /\ MissingColumns # {}
    /\ Exit("CSV missing columns", SortedMissing)
    /\ UNCHANGED aux_vars
    /\ UNCHANGED <<args, input_exists, columns, rows, fs_dirs, out_file,
                   df, year_cols, long, prepared>>

\* A faulty variant of IsExcluded: the label is not lowercased.
IsExcluded_case_sensitive(item) == str_strip(item) \in EXCLUDE_ITEMS

IsExcluded(item) == str_lower(str_strip(item)) \in EXCLUDE_ITEMS

\* The wide table after stripping Area, Item and Element, dropping the
\* excluded items and canonicalizing Item.
Canonicalized(table) ==
    LET stripped == [i \in 1..Len(table) |->
                        [table[i] EXCEPT ![COL_AREA] = str_strip(@),
                                         ![COL_ITEM] = str_strip(@),
                                         ![COL_ELEMENT] = str_strip(@)]]
        kept == SelectSeq(stripped, LAMBDA r : ~IsExcluded(r[COL_ITEM]))
    IN  [i \in 1..Len(kept) |->
            [kept[i] EXCEPT ![COL_ITEM] = canonical_item(@)]]

\* if not year_cols: sys.exit(...)
ExitNoYearColumns ==
    /\ pc = "opened"
    /\ MissingColumns = {}
    /\ detect_year_cols(columns) = <<>>
    /\ df' = Canonicalized(df)
    /\ Exit("No year columns found", <<>>)
    /\ UNCHANGED aux_vars
    /\ UNCHANGED <<args, input_exists, columns, rows, fs_dirs, out_file,
                   year_cols, long, prepared>>

Validate ==
    /\ pc = "opened"
    /\ MissingColumns = {}
    /\ detect_year_cols(columns) # <<>>
    /\ df' = Canonicalized(df)
    /\ year_cols' = detect_year_cols(columns)
    /\ pc' = "validated"
    /\ UNCHANGED aux_vars
    /\ UNCHANGED <<args, input_exists, columns, rows, fs_dirs, out_file,
                   exit_msg, long, prepared>>

\* The rows whose Element is recognized and, with only_lt, whose gas
\* Element is a livestock total.
Filtered(table, lt) ==
    LET known == SelectSeq(table,
                     LAMBDA r : normalize_element(r[COL_ELEMENT]) # "None")
    IN  IF lt
        THEN SelectSeq(known,
                 LAMBDA r : \/ normalize_element(r[COL_ELEMENT]) \notin {"CH4", "N2O"}
                            \/ is_livestock_total_element(r[COL_ELEMENT]))
        ELSE known

\* One row of the long table: wide row r at year column c.
LongRow(r, c) ==
    LET kind == item_kind(r[COL_ITEM])
        reg  == region_flags(r[COL_AREA])
    IN  [Area |-> r[COL_AREA], Item |-> r[COL_ITEM], Element |-> r[COL_ELEMENT],
         ElementNorm |-> normalize_element(r[COL_ELEMENT]),
         item_kind |-> kind,
         is_all |-> kind = "All",
         is_aggregated |-> kind = "aggregated",
         is_atomic |-> kind = "atomic",
         region_europe |-> reg[1],
         region_EU |-> reg[2],
         region_EUEEAUK |-> reg[3],
         Year |-> str_to_int(Tail(c)),
         Value |-> r[c]]

\* df.melt(...): the rows of the first year column, then of the next
Melt(table, ycols) ==
    Concat([k \in 1..Len(ycols) |->
               [i \in 1..Len(table) |-> LongRow(table[i], ycols[k])]])

Reshape ==
    /\ pc = "validated"
    /\ df' = Filtered(df, only_lt)
    /\ long' = Melt(Filtered(df, only_lt), year_cols)
    /\ pc' = "melted"
    /\ UNCHANGED aux_vars
    /\ UNCHANGED <<args, input_exists, columns, rows, fs_dirs, out_file,
                   exit_msg, year_cols, prepared>>

\* long[long["ElementNorm"] == norm][[Area, Item, Year, Value, item_kind, ...]]
MetricRows(table, norm) ==
    LET sel == SelectSeq(table, LAMBDA r : r.ElementNorm = norm) IN
    [i \in 1..Len(sel) |-> WithValue(GroupKey(sel[i]), sel[i].Value)]

\* table["Value"] * factor
Scaled(table, factor) ==
    [i \in 1..Len(table) |->
        WithValue(GroupKey(table[i]), Times(table[i].Value, factor))]

\* A faulty variant of TotalTable: an inner merge, which keeps only the keys
\* that both sides have.
TotalTable_inner(ch4, n2o) ==
    LET ch4_sum == GroupSum(ch4)
        n2o_sum == GroupSum(n2o)
        keys    == SelectSeq(KeysOf(ch4_sum),
                             LAMBDA k : \E i \in DOMAIN n2o_sum : GroupKey(n2o_sum[i]) = k)
        side(tab, k) == SumValues(SelectSeq(tab, LAMBDA r : GroupKey(r) = k))
    IN  [g \in 1..Len(keys) |->
            WithValue(keys[g], Num(side(ch4_sum, keys[g]) + side(n2o_sum, keys[g])))]

\* pd.merge(ch4_sum, n2o_sum, on=[...], how="outer").fillna(0.0), then the
\* sum of the two columns.  Each side has one row per key.
TotalTable(ch4, n2o) ==
    LET ch4_sum == GroupSum(ch4)
        n2o_sum == GroupSum(n2o)
        keys    == SortedKeys(DistinctKeys(KeysOf(ch4_sum) \o KeysOf(n2o_sum)))
        side(tab, k) == SumValues(SelectSeq(tab, LAMBDA r : GroupKey(r) = k))
    IN  [g \in 1..Len(keys) |->
            WithValue(keys[g], Num(side(ch4_sum, keys[g]) + side(n2o_sum, keys[g])))]

CATTLE == <<"C","a","t","t","l","e">>

CATTLE_DAIRY == <<"C","a","t","t","l","e",","," ","d","a","i","r","y">>

CATTLE_NON_DAIRY == <<"C","a","t","t","l","e",","," ","n","o","n","-","d","a","i","r","y">>

StockRow(k, item, stocks, kind) ==
    [Area |-> k.Area, Item |-> item, Year |-> k.Year, Stocks |-> stocks,
     item_kind |-> kind, is_all |-> kind = "All",
     is_aggregated |-> kind = "aggregated", is_atomic |-> kind = "atomic"]

\* sb = stocks.rename(columns={"Value": "Stocks"}) with Item canonicalized.
\* Stocks is held in hundredths of a unit.
StockBase(stocks) ==
    [i \in 1..Len(stocks) |->
        StockRow(stocks[i], canonical_item(stocks[i].Item),
                 Times(stocks[i].Value, 100), stocks[i].item_kind)]

\* sb["Item"].str.fullmatch(r"(?i)cattle")
IsGenericCattle(r) == str_lower(r.Item) = str_lower(CATTLE)

\* A faulty variant of KeysAtomic: no key is guarded.
KeysAtomic_unguarded(sb) == {}

\* keys where atomic cattle already exists
KeysAtomic(sb) ==
    { <<sb[i].Area, sb[i].Year>> :
        i \in { j \in DOMAIN sb : sb[j].Item \in {CATTLE_DAIRY, CATTLE_NON_DAIRY} } }

\* A faulty variant of Share: the stock is not multiplied by the fraction.
Share_unscaled(stocks, frac) == stocks

\* Stocks *= frac, for frac in hundredths
Share(stocks, frac) ==
    IF stocks = NaN THEN NaN ELSE Num((stocks[1] * frac) \div 100)

\* A faulty variant of SplitPart: the derived rows keep the item_kind of the
\* generic row.
SplitPart_keeping_kind(to_split, item, frac) ==
    [i \in 1..Len(to_split) |->
        StockRow(to_split[i], item, Share(to_split[i].Stocks, frac),
                 to_split[i].item_kind)]

\* One half of the split of the generic rows to_split.
SplitPart(to_split, item, frac) ==
    [i \in 1..Len(to_split) |->
        StockRow(to_split[i], item, Share(to_split[i].Stocks, frac), "atomic")]

\* A faulty variant of SplitCattle: the generic rows at the guarded keys are
\* dropped.
SplitCattle_dropping_generic(sb, frac) ==
    LET keys_atomic  == KeysAtomic(sb)
        cattle       == SelectSeq(sb, IsGenericCattle)
        non_cattle   == SelectSeq(sb, LAMBDA r : ~IsGenericCattle(r))
        to_split     == SelectSeq(cattle, LAMBDA r : <<r.Area, r.Year>> \notin keys_atomic)
    IN  IF cattle = <<>> THEN sb
        ELSE non_cattle
               \o SplitPart(to_split, CATTLE_DAIRY, frac)
               \o SplitPart(to_split, CATTLE_NON_DAIRY, 100 - frac)

\* The guarded cattle split.
SplitCattle(sb, frac) ==
    LET keys_atomic  == KeysAtomic(sb)
        cattle       == SelectSeq(sb, IsGenericCattle)
        non_cattle   == SelectSeq(sb, LAMBDA r : ~IsGenericCattle(r))
        to_split     == SelectSeq(cattle, LAMBDA r : <<r.Area, r.Year>> \notin keys_atomic)
        keep_generic == SelectSeq(cattle, LAMBDA r : <<r.Area, r.Year>> \in keys_atomic)
    IN  IF cattle = <<>> THEN sb
        ELSE IF to_split = <<>> THEN non_cattle \o keep_generic
        ELSE non_cattle \o keep_generic
               \o SplitPart(to_split, CATTLE_DAIRY, frac)
               \o SplitPart(to_split, CATTLE_NON_DAIRY, 100 - frac)

\* sb["Value"] = sb["Stocks"] * sb["LSU_weight"], grouped
LsuTable(sb) ==
    GroupSum([i \in 1..Len(sb) |->
                 WithValue(GroupKey(sb[i]),
                           Times(sb[i].Stocks, default_lsu_weight(sb[i].Item)))])

\* A faulty variant of Prepared: the split is made in the Stocks table
\* itself, so the Stocks rows carry the derived labels.
Prepared_split_in_place(table, gwp_ch4, gwp_n2o, split, frac) ==
    LET stocks == MetricRows(table, "Stocks")
        ch4    == Scaled(MetricRows(table, "CH4"), gwp_ch4)
        n2o    == Scaled(MetricRows(table, "N2O"), gwp_n2o)
        sb     == IF split THEN SplitCattle(StockBase(stocks), frac)
                           ELSE StockBase(stocks)
        shown  == IF split
                  THEN [i \in 1..Len(sb) |->
                           WithValue(GroupKey(sb[i]),
                               IF sb[i].Stocks = NaN THEN NaN
                               ELSE Num(sb[i].Stocks[1] \div 100))]
                  ELSE stocks
    IN  (IF stocks # <<>> THEN <<Tagged(shown, "Stocks")>> ELSE <<>>)
        \o (IF ch4 # <<>> THEN <<Tagged(GroupSum(ch4), "CH4_CO2e")>> ELSE <<>>)
        \o (IF n2o # <<>> THEN <<Tagged(GroupSum(n2o), "N2O_CO2e")>> ELSE <<>>)
        \o (IF ch4 # <<>> \/ n2o # <<>>
            THEN <<Tagged(TotalTable(ch4, n2o), "Total_CO2e")>> ELSE <<>>)
        \o (IF stocks # <<>> THEN <<Tagged(LsuTable(sb), "LSU")>> ELSE <<>>)

\* A faulty variant of Prepared: Total_CO2e is emitted only when both gases
\* have rows.
Prepared_total_needs_both(table, gwp_ch4, gwp_n2o, split, frac) ==
    LET stocks == MetricRows(table, "Stocks")
        ch4    == Scaled(MetricRows(table, "CH4"), gwp_ch4)
        n2o    == Scaled(MetricRows(table, "N2O"), gwp_n2o)
        sb     == IF split THEN SplitCattle(StockBase(stocks), frac)
                           ELSE StockBase(stocks)
    IN  (IF stocks # <<>> THEN <<Tagged(stocks, "Stocks")>> ELSE <<>>)
        \o (IF ch4 # <<>> THEN <<Tagged(GroupSum(ch4), "CH4_CO2e")>> ELSE <<>>)
        \o (IF n2o # <<>> THEN <<Tagged(GroupSum(n2o), "N2O_CO2e")>> ELSE <<>>)
        \o (IF ch4 # <<>> /\ n2o # <<>>
            THEN <<Tagged(TotalTable(ch4, n2o), "Total_CO2e")>> ELSE <<>>)
        \o (IF stocks # <<>> THEN <<Tagged(LsuTable(sb), "LSU")>> ELSE <<>>)

\* The list prepared of main() for the long table, the GWP pair, the split
\* switch and the dairy fraction.
Prepared(table, gwp_ch4, gwp_n2o, split, frac) ==
    LET stocks == MetricRows(table, "Stocks")
        ch4    == Scaled(MetricRows(table, "CH4"), gwp_ch4)
        n2o    == Scaled(MetricRows(table, "N2O"), gwp_n2o)
        sb     == IF split THEN SplitCattle(StockBase(stocks), frac)
                           ELSE StockBase(stocks)
    IN  (IF stocks # <<>> THEN <<Tagged(stocks, "Stocks")>> ELSE <<>>)
        \o (IF ch4 # <<>> THEN <<Tagged(GroupSum(ch4), "CH4_CO2e")>> ELSE <<>>)
        \o (IF n2o # <<>> THEN <<Tagged(GroupSum(n2o), "N2O_CO2e")>> ELSE <<>>)
        \o (IF ch4 # <<>> \/ n2o # <<>>
            THEN <<Tagged(TotalTable(ch4, n2o), "Total_CO2e")>> ELSE <<>>)
        \o (IF stocks # <<>> THEN <<Tagged(LsuTable(sb), "LSU")>> ELSE <<>>)

Derive ==
    /\ pc = "melted"
    /\ prepared' = Prepared(long, GWP_CH4, GWP_N2O, split_cattle, dairy_frac)
    /\ pc' = "derived"
    /\ UNCHANGED aux_vars
    /\ UNCHANGED <<args, input_exists, columns, rows, fs_dirs, out_file,
                   exit_msg, df, year_cols, long>>

\* A faulty variant of ExitNothingToWrite: an empty CSV is written before
\* the exit.
ExitNothingToWrite_empty_csv ==
    /\ pc = "derived"
    /\ prepared = <<>>
    /\ out_file' = [written |-> TRUE, rows |-> <<>>]
    /\ Exit("Nothing to write", <<>>)
    /\ UNCHANGED aux_vars
    /\ UNCHANGED <<args, input_exists, columns, rows, fs_dirs,
                   df, year_cols, long, prepared>>

\* if not prepared: sys.exit("Nothing to write.")
ExitNothingToWrite ==
    /\ pc = "derived"
    /\ prepared = <<>>
    /\ Exit("Nothing to write", <<>>)
    /\ UNCHANGED aux_vars
    /\ UNCHANGED <<args, input_exists, columns, rows, fs_dirs, out_file,
                   df, year_cols, long, prepared>>

\* The metric names in increasing string order.
MetricOrder == <<"CH4_CO2e", "LSU", "N2O_CO2e", "Stocks", "Total_CO2e">>

MetricRank(m) == CHOOSE i \in DOMAIN MetricOrder : MetricOrder[i] = m

\* sort_values(["Area", "Item", "Year", "Metric"])
OutLess(a, b) ==
    IF a.Area # b.Area THEN str_less(a.Area, b.Area)
    ELSE IF a.Item # b.Item THEN str_less(a.Item, b.Item)
    ELSE IF a.Year # b.Year THEN a.Year < b.Year
    ELSE MetricRank(a.Metric) < MetricRank(b.Metric)

\* The rows in the order of OutLess, rows of the same key in their order
\* in tab.
SortedOut(tab) ==
    Permuted(tab,
        [i \in 1..Len(tab) |->
            Cardinality({ j \in 1..Len(tab) :
                \/ OutLess(tab[j], tab[i])
                \/ (j < i /\ ~OutLess(tab[i], tab[j])) }) + 1])

\* One row of the output CSV, in the column order of cols.
OutRow(r) ==
    LET reg == region_flags(r.Area) IN
    [Area |-> r.Area, Item |-> canonical_item(r.Item), Year |-> r.Year,
     Metric |-> r.Metric, Value |-> r.Value,
     item_kind |-> r.item_kind, is_all |-> r.is_all,
     is_aggregated |-> r.is_aggregated, is_atomic |-> r.is_atomic,
     region_EU |-> reg[2], region_EUEEAUK |-> reg[3], region_europe |-> reg[1]]

\* The table main() writes: sorted, canonicalized again, the excluded items
\* dropped again, the region flags computed from Area.
Output(tables) ==
    LET sorted == SortedOut(Concat(tables))
        canon  == [i \in 1..Len(sorted) |-> OutRow(sorted[i])]
    IN  SelectSeq(canon, LAMBDA r : ~IsExcluded(r.Item))

\* A faulty variant of Write: the output is written even when no metric
\* table was produced.
Write_unguarded ==
    /\ pc = "derived"
    /\ out_file' = [written |-> TRUE, rows |-> Output(prepared)]
    /\ pc' = "written"
    /\ UNCHANGED aux_vars
    /\ UNCHANGED <<args, input_exists, columns, rows, fs_dirs, exit_msg,
                   df, year_cols, long, prepared>>

\* out[cols].to_csv(outp, index=False)
Write ==
    /\ pc = "derived"
    /\ prepared # <<>>
    /\ out_file' = [written |-> TRUE, rows |-> Output(prepared)]
    /\ pc' = "written"
    /\ UNCHANGED aux_vars
    /\ UNCHANGED <<args, input_exists, columns, rows, fs_dirs, exit_msg,
                   df, year_cols, long, prepared>>

Next ==
    \/ ExitInputNotFound
    \/ OpenInput
    \/ ExitMissingColumns
    \/ ExitNoYearColumns
    \/ Validate
    \/ Reshape
    \/ Derive
    \/ ExitNothingToWrite
    \/ Write

Spec == Init /\ [][Next]_vars

(***************************************************************************)
(* The Item canonicalizer on its own                                       *)
(***************************************************************************)
\* The largest number of pieces of a label.
MaxPieces == 3

\* The pieces the labels are put together from.
LabelPieces == {
    <<"C","a","t","t","l","e">>, <<"c","a","t","t","l","e">>, <<"B","O","V","I","N","E">>, <<"d","a","i","r","y">>, <<"n","o","n","-","d","a","i","r","y">>, <<"N","o","n","-","D","a","i","r","y">>, <<"n","o","n"," ","d","a","i","r","y">>,
    <<"n","o","n","d","a","i","r","y">>, <<"n","o","n"," "," ","d","a","i","r","y">>, <<"o","t","h","e","r">>, <<"S","h","e","e","p">>, <<"s">>, <<","," ">>, <<" ">>, <<" "," ">> }

\* The labels of at most MaxPieces pieces.
Labels ==
    { Concat(ps) : ps \in UNION { [1..n -> LabelPieces] : n \in 0..MaxPieces } }

InitCanon ==
    /\ args = DefaultArgs
    /\ input_exists = FALSE
    /\ columns = <<>>
    /\ rows = <<>>
    /\ fs_dirs = {path_parent(InputPath)}
    /\ out_file = [written |-> FALSE, rows |-> <<>>]
    /\ pc = "off"
    /\ exit_msg = NoExit
    /\ df = <<>>
    /\ year_cols = <<>>
    /\ long = <<>>
    /\ prepared = <<>>
    /\ label \in Labels
    /\ canon_pc = "start"
    /\ canon_once = <<>>
    /\ canon_twice = <<>>
    /\ ElementIdle
    /\ FilterIdle
    /\ DashIdle
    /\ ItemsIdle
    /\ PresetIdle
    /\ YearsIdle

\* df["Item"].apply(canonical_item)
Canonicalize ==
    /\ canon_pc = "start"
    /\ canon_once' = canonical_item(label)
    /\ canon_pc' = "once"
    /\ UNCHANGED <<label, canon_twice>>
    /\ UNCHANGED <<main_vars, element_vars, filter_vars, dash_vars, items_vars, preset_vars, years_vars>>

\* sb["Item"].apply(canonical_item) and out["Item"].apply(canonical_item):
\* the canonicalizer applied to its own result
Recanonicalize ==
    /\ canon_pc = "once"
    /\ canon_twice' = canonical_item(canon_once)
    /\ canon_pc' = "twice"
    /\ UNCHANGED <<label, canon_once>>
    /\ UNCHANGED <<main_vars, element_vars, filter_vars, dash_vars, items_vars, preset_vars, years_vars>>

NextCanon == Canonicalize \/ Recanonicalize

SpecCanon == InitCanon /\ [][NextCanon]_vars


(***************************************************************************)
(* The Element normalizer on its own                                       *)
(***************************************************************************)
\* main() is not running.
MainIdle ==
    /\ args = DefaultArgs
    /\ input_exists = FALSE
    /\ columns = <<>>
    /\ rows = <<>>
    /\ fs_dirs = {path_parent(InputPath)}
    /\ out_file = [written |-> FALSE, rows |-> <<>>]
    /\ pc = "off"
    /\ exit_msg = NoExit
    /\ df = <<>>
    /\ year_cols = <<>>
    /\ long = <<>>
    /\ prepared = <<>>

\* canonical_item is not being run on its own.
CanonIdle ==
    /\ label = <<>>
    /\ canon_pc = "off"
    /\ canon_once = <<>>
    /\ canon_twice = <<>>

\* The largest number of pieces of an Element label.
MaxElementPieces == 3

\* The pieces the Element labels are put together from.
ElementPieces == {
    <<"S","t","o","c","k","s">>, <<"s","t","o","c","k">>, <<"L","i","v","e">>, <<"C","H","4">>, <<"m","e","t","h","a","n","e">>, <<"N","2","O">>, <<"n","i","t","r","o","u","s">>,
    <<"t","o","t","a","l">>, <<"s">>, <<" ">>, <<"(">>, <<")">> }

\* The Element labels of at most MaxElementPieces pieces.
ElementLabels ==
    { Concat(ps) : ps \in UNION { [1..n -> ElementPieces] : n \in 0..MaxElementPieces } }

InitElement ==
    /\ MainIdle
    /\ CanonIdle
    /\ FilterIdle
    /\ DashIdle
    /\ ItemsIdle
    /\ PresetIdle
    /\ YearsIdle
    /\ element \in ElementLabels
    /\ element_pc = "start"
    /\ element_norm = "None"

\* df["Element"].astype(str).str.strip(), then
\* df["Element"].apply(normalize_element)
NormalizeElement ==
    /\ element_pc = "start"
    /\ element_norm' = normalize_element(str_strip(element))
    /\ element_pc' = "done"
    /\ UNCHANGED element
    /\ UNCHANGED <<main_vars, canon_vars, filter_vars, dash_vars, items_vars, preset_vars, years_vars>>

NextElement == NormalizeElement

SpecElement == InitElement /\ [][NextElement]_vars

(***************************************************************************)
(* The total/stocks filter tool                                            *)
(*                                                                         *)
(* A cell of its input CSV, as pd.read_csv returns it, is NaN, a number or *)
(* a text.                                                                 *)
(***************************************************************************)
FNaN == [t |-> "nan", n |-> 0, s |-> <<>>]

FNum(n) == [t |-> "num", n |-> n, s |-> <<>>]

FText(s) == [t |-> "str", n |-> 0, s |-> s]

WANTED == {<<"t","o","t","a","l","_","c","o","2","e">>, <<"s","t","o","c","k","s">>}

\* str(x) of a Metric cell
cell_str(x) == IF x.t = "nan" THEN <<"n","a","n">> ELSE x.s

\* A faulty variant of norm: spaces are not replaced by underscores.
norm_keeping_spaces(x) == str_lower(str_strip(cell_str(x)))

\* norm of main(): str(x).strip().lower().replace(" ", "_")
norm(x) == str_replace(str_lower(str_strip(cell_str(x))), <<" ">>, <<"_">>)

\* pd.to_numeric(x, errors="coerce"), then fillna(0), then != 0
to_numeric_nonzero(x) == x.t = "num" /\ x.n # 0

\* The columns main() puts first.
PREFERRED ==
    <<"Area", "Item", "Year", "Metric", "Value", "item_kind", "is_all",
      "is_aggregated", "is_atomic", "region_EU", "region_EUEEAUK", "region_europe">>

\* The largest number of data rows of the input CSV of the filter tool.
MaxFilterRows == 2

\* The data rows its input CSV is made of.
FilterInputRows == <<
    [Area |-> FText(<<"A","u","s","t","r","i","a">>), Metric |-> FText(<<"T","o","t","a","l","_","C","O","2","e">>),
     Value |-> FNum(5), Note |-> FText(<<"a">>)],
    [Area |-> FText(<<"A","u","s","t","r","i","a">>), Metric |-> FText(<<" ","t","o","t","a","l"," ","c","o","2","e"," ">>),
     Value |-> FNum(0), Note |-> FNaN],
    [Area |-> FText(<<"N","o","r","w","a","y">>), Metric |-> FText(<<"S","T","O","C","K","S">>),
     Value |-> FNaN, Note |-> FText(<<"b">>)],
    [Area |-> FText(<<"N","o","r","w","a","y">>), Metric |-> FText(<<"S","t","o","c","k","s">>),
     Value |-> FNum(7), Note |-> FText(<<"c">>)],
    [Area |-> FText(<<"P","e","r","u">>), Metric |-> FText(<<"L","S","U">>),
     Value |-> FNum(3), Note |-> FNaN],
    [Area |-> FText(<<"P","e","r","u">>), Metric |-> FText(<<"C","H","4","_","C","O","2","e">>),
     Value |-> FNum(0), Note |-> FNaN],
    [Area |-> FText(<<"P","e","r","u">>), Metric |-> FNaN,
     Value |-> FNum(1), Note |-> FNaN],
    [Area |-> FText(<<"A","u","s","t","r","i","a">>), Metric |-> FText(<<"T","o","t","a","l"," "," ","C","O","2","e">>),
     Value |-> FNum(2), Note |-> FNaN],
    [Area |-> FText(<<"A","u","s","t","r","i","a">>), Metric |-> FText(<<"S","t","o","c","k","s">>),
     Value |-> FText(<<"1","2"," ","k","t">>), Note |-> FNaN] >>

\* The headers its input CSV can have.
FilterInputHeaders == {
    <<"Area", "Metric", "Value">>,
    <<"Note", "Value", "Metric", "Area">>,
    <<"Area", "Metric">>,
    <<"Area", "Value">> }

\* The tables of at most MaxFilterRows rows.
FilterInputTables ==
    UNION { [1..n -> DOMAIN FilterInputRows] : n \in 0..MaxFilterRows }

\* pd.read_csv: one function from column name to cell per data row.
FilterCsvRows(h, t) ==
    [i \in 1..Len(t) |->
        [c \in { h[k] : k \in DOMAIN h } |-> FilterInputRows[t[i]][c]]]

FilterInputPath == <<"d","a","t","a","/","p","r","e","p","a","r","e","d",".","c","s","v">>

\* Path.name: the last component of the path
RECURSIVE path_name(_)
path_name(p) ==
    IF p = <<>> \/ p[Len(p)] = "/" THEN <<>>
    ELSE path_name(SubSeq(p, 1, Len(p) - 1)) \o <<p[Len(p)]>>

\* The name without its last suffix.
RECURSIVE drop_suffix(_)
drop_suffix(n) ==
    IF n = <<>> THEN <<>>
    ELSE IF n[Len(n)] = "." THEN SubSeq(n, 1, Len(n) - 1)
    ELSE drop_suffix(SubSeq(n, 1, Len(n) - 1))

\* Path.stem
path_stem(p) ==
    IF ~str_contains(Tail(path_name(p)), <<".">>) THEN path_name(p)
    ELSE drop_suffix(path_name(p))

\* outp of main()
FilterOutputPath(a) ==
    IF a.output # <<>> THEN a.output
    ELSE path_parent(a.input) \o <<"/">> \o path_stem(a.input) \o <<"_","t","o","t","a","l","_","s","t","o","c","k","s",".","c","s","v">>

\* The command lines of the filter tool.
FilterArgSets ==
    { [input |-> FilterInputPath, output |-> o, drop_zero |-> z] :
        o \in {<<>>, <<"m","i","s","s","i","n","g","/","f","i","l","t","e","r","e","d",".","c","s","v">>}, z \in BOOLEAN }

InitFilter ==
    /\ MainIdle
    /\ CanonIdle
    /\ ElementIdle
    /\ DashIdle
    /\ ItemsIdle
    /\ PresetIdle
    /\ YearsIdle
    /\ filter_args \in FilterArgSets
    /\ filter_input_exists \in BOOLEAN
    /\ IF filter_input_exists
       THEN \E h \in FilterInputHeaders, t \in FilterInputTables :
               /\ filter_columns = h
               /\ filter_rows = FilterCsvRows(h, t)
       ELSE filter_columns = <<>> /\ filter_rows = <<>>
    /\ filter_pc = "start"
    /\ filter_exit_msg = "running"
    /\ filter_out_file = [written |-> FALSE, columns |-> <<>>, rows |-> <<>>]

\* if not inp.exists(): sys.exit(...)
FilterExitInputNotFound ==
    /\ filter_pc = "start"
    /\ ~filter_input_exists
    /\ filter_pc' = "exit"
    /\ filter_exit_msg' = "Input not found"
    /\ UNCHANGED <<filter_args, filter_input_exists, filter_columns, filter_rows,
                   filter_out_file>>
    /\ UNCHANGED <<main_vars, canon_vars, element_vars, dash_vars, items_vars, preset_vars, years_vars>>

\* df = pd.read_csv(inp)
FilterRead ==
    /\ filter_pc = "start"
    /\ filter_input_exists
    /\ filter_pc' = "read"
    /\ UNCHANGED <<filter_args, filter_input_exists, filter_columns, filter_rows,
                   filter_exit_msg, filter_out_file>>
    /\ UNCHANGED <<main_vars, canon_vars, element_vars, dash_vars, items_vars, preset_vars, years_vars>>

FilterColumnSet == { filter_columns[k] : k \in DOMAIN filter_columns }

\* A faulty variant of FilterExitNoMetric: the input is copied to the output
\* before the exit.
FilterExitNoMetric_copying ==
    /\ filter_pc = "read"
    /\ "Metric" \notin FilterColumnSet
    /\ filter_out_file' = [written |-> TRUE, columns |-> filter_columns,
                           rows |-> filter_rows]
    /\ filter_pc' = "exit"
    /\ filter_exit_msg' = "This file has no 'Metric' column"
    /\ UNCHANGED <<filter_args, filter_input_exists, filter_columns, filter_rows>>
    /\ UNCHANGED <<main_vars, canon_vars, element_vars, dash_vars, items_vars, preset_vars, years_vars>>

\* if "Metric" not in df.columns: sys.exit(...)
FilterExitNoMetric ==
    /\ filter_pc = "read"
    /\ "Metric" \notin FilterColumnSet
    /\ filter_pc' = "exit"
    /\ filter_exit_msg' = "This file has no 'Metric' column"
    /\ UNCHANGED <<filter_args, filter_input_exists, filter_columns, filter_rows,
                   filter_out_file>>
    /\ UNCHANGED <<main_vars, canon_vars, element_vars, dash_vars, items_vars, preset_vars, years_vars>>

\* out = df[keep_mask], then the --drop-zero filter when there is a Value
\* column
FilterKept(table, cols, drop_zero) ==
    LET out == SelectSeq(table, LAMBDA r : norm(r["Metric"]) \in WANTED) IN
    IF drop_zero /\ "Value" \in cols
    THEN SelectSeq(out, LAMBDA r : to_numeric_nonzero(r["Value"]))
    ELSE out

\* preferred + other
FilterOrdered(cols) ==
    SelectSeq(PREFERRED, LAMBDA c : c \in { cols[k] : k \in DOMAIN cols })
    \o SelectSeq(cols, LAMBDA c : c \notin { PREFERRED[k] : k \in DOMAIN PREFERRED })

\* The directories that exist when the filter tool runs.
FilterDirs == {path_parent(FilterInputPath)}

\* The filter, the column order and out.to_csv(outp, index=False), which
\* raises OSError when the directory of outp does not exist.
FilterWrite ==
    /\ filter_pc = "read"
    /\ "Metric" \in FilterColumnSet
    /\ IF path_parent(FilterOutputPath(filter_args)) \in FilterDirs
       THEN /\ filter_out_file' =
                  [written |-> TRUE, columns |-> FilterOrdered(filter_columns),
                   rows |-> FilterKept(filter_rows, FilterColumnSet,
                                       filter_args.drop_zero)]
            /\ filter_pc' = "written"
            /\ UNCHANGED filter_exit_msg
       ELSE /\ filter_pc' = "exit"
            /\ filter_exit_msg' = "OSError"
            /\ UNCHANGED filter_out_file
    /\ UNCHANGED <<filter_args, filter_input_exists, filter_columns, filter_rows>>
    /\ UNCHANGED <<main_vars, canon_vars, element_vars, dash_vars, items_vars, preset_vars, years_vars>>

NextFilter ==
    \/ FilterExitInputNotFound
    \/ FilterRead
    \/ FilterExitNoMetric
    \/ FilterWrite

SpecFilter == InitFilter /\ [][NextFilter]_vars

(***************************************************************************)
(* The dashboard: how one run of the script obtains its data               *)
(***************************************************************************)
\* need of load_prepared
DASH_NEED ==
    {"Area", "Item", "Year", "Metric", "Value", "item_kind",
     "region_europe", "region_EU", "region_EUEEAUK"}

\* The names of need in the order of sorted().
DASH_NEED_SORTED ==
    <<"Area", "Item", "Metric", "Value", "Year", "item_kind",
      "region_EU", "region_EUEEAUK", "region_europe">>

\* The column sets of the CSV the dashboard is given.
DashColumnSets == SUBSET (DASH_NEED \cup {"is_all"})

\* need.difference(df.columns)
DashMiss == DASH_NEED \ dash_columns

\* sorted(miss)
DashSortedMiss == SelectSeq(DASH_NEED_SORTED, LAMBDA c : c \in DashMiss)

InitDash ==
    /\ MainIdle
    /\ CanonIdle
    /\ ElementIdle
    /\ FilterIdle
    /\ ItemsIdle
    /\ PresetIdle
    /\ YearsIdle
    /\ dash_path_exists \in BOOLEAN
    /\ dash_uploaded \in BOOLEAN
    /\ dash_columns \in DashColumnSets
    /\ dash_has_rows \in BOOLEAN
    /\ dash_pc = "start"
    /\ dash_msg = [kind |-> "none", cols |-> <<>>]
    /\ dash_tabs = FALSE

\* An uncaught exception ends the run.
DashRaise(kind, cols) ==
    /\ dash_pc' = "crashed"
    /\ dash_msg' = [kind |-> kind, cols |-> cols]

\* path.exists(): df = load_prepared(path), which validates the columns
\* and stops the run with st.error when one is missing.
LoadPrepared ==
    /\ dash_pc = "start"
    /\ dash_path_exists
    /\ IF DashMiss # {}
       THEN /\ dash_msg' = [kind |-> "Prepared CSV missing columns",
                            cols |-> DashSortedMiss]
            /\ dash_pc' = "stopped"
       ELSE /\ dash_pc' = "loaded"
            /\ UNCHANGED dash_msg
    /\ UNCHANGED <<dash_path_exists, dash_uploaded, dash_columns, dash_has_rows,
                   dash_tabs>>
    /\ UNCHANGED <<main_vars, canon_vars, element_vars, filter_vars, items_vars, preset_vars, years_vars>>

\* not path.exists() and nothing uploaded: st.warning, st.stop()
AwaitUpload ==
    /\ dash_pc = "start"
    /\ ~dash_path_exists
    /\ ~dash_uploaded
    /\ dash_msg' = [kind |-> "Prepared CSV not found", cols |-> <<>>]
    /\ dash_pc' = "stopped"
    /\ UNCHANGED <<dash_path_exists, dash_uploaded, dash_columns, dash_has_rows,
                   dash_tabs>>
    /\ UNCHANGED <<main_vars, canon_vars, element_vars, filter_vars, items_vars, preset_vars, years_vars>>

\* not path.exists() and a file uploaded: df = pd.read_csv(uploaded), then
\* df[df["Metric"].isin([...])], a KeyError without a Metric column.
LoadUploaded ==
    /\ dash_pc = "start"
    /\ ~dash_path_exists
    /\ dash_uploaded
    /\ IF "Metric" \notin dash_columns
       THEN DashRaise("KeyError", <<"Metric">>)
       ELSE /\ dash_pc' = "loaded"
            /\ UNCHANGED dash_msg
    /\ UNCHANGED <<dash_path_exists, dash_uploaded, dash_columns, dash_has_rows,
                   dash_tabs>>
    /\ UNCHANGED <<main_vars, canon_vars, element_vars, filter_vars, items_vars, preset_vars, years_vars>>

\* year_min, year_max = int(df["Year"].min()), int(df["Year"].max()): a
\* KeyError without a Year column, a ValueError (int of NaN) without rows.
YearRange ==
    /\ dash_pc = "loaded"
    /\ IF "Year" \notin dash_columns THEN DashRaise("KeyError", <<"Year">>)
       ELSE IF ~dash_has_rows THEN DashRaise("ValueError", <<>>)
       ELSE /\ dash_pc' = "ranged"
            /\ UNCHANGED dash_msg
    /\ UNCHANGED <<dash_path_exists, dash_uploaded, dash_columns, dash_has_rows,
                   dash_tabs>>
    /\ UNCHANGED <<main_vars, canon_vars, element_vars, filter_vars, items_vars, preset_vars, years_vars>>

\* tab_ts, tab_pie, tab_map = st.tabs([...])
Tabs ==
    /\ dash_pc = "ranged"
    /\ dash_tabs' = TRUE
    /\ dash_pc' = "tabs"
    /\ UNCHANGED <<dash_path_exists, dash_uploaded, dash_columns, dash_has_rows,
                   dash_msg>>
    /\ UNCHANGED <<main_vars, canon_vars, element_vars, filter_vars, items_vars, preset_vars, years_vars>>

\* with tab_ts: ... df["item_kind"].unique(), a KeyError without an
\* item_kind column.
TimeTrends ==
    /\ dash_pc = "tabs"
    /\ IF "item_kind" \notin dash_columns
       THEN DashRaise("KeyError", <<"item_kind">>)
       ELSE /\ dash_pc' = "trends"
            /\ UNCHANGED dash_msg
    /\ UNCHANGED <<dash_path_exists, dash_uploaded, dash_columns, dash_has_rows,
                   dash_tabs>>
    /\ UNCHANGED <<main_vars, canon_vars, element_vars, filter_vars, items_vars, preset_vars, years_vars>>

NextDash ==
    \/ LoadPrepared
    \/ AwaitUpload
    \/ LoadUploaded
    \/ YearRange
    \/ Tabs
    \/ TimeTrends

SpecDash == InitDash /\ [][NextDash]_vars

(***************************************************************************)
(* The dashboard: the item section of the Time Series tab across reruns    *)
(***************************************************************************)
\* normalize_kind_value(v)
normalize_kind_value(v) ==
    LET s == str_lower(str_strip(v))
    IN  IF s \in {<<"a","l","l">>, <<"a","l","l"," ","a","n","i","m","a","l","s">>, <<"a","l","l","_","a","n","i","m","a","l","s">>} THEN "All"
        ELSE IF s \in {<<"a","g","g","r","e","g","a","t","e","d">>, <<"a","g","g","r","e","g","a","t","e">>} THEN "aggregated"
        ELSE "atomic"

\* The smallest text of a non-empty set, in the order of sorted().
MinText(S) == CHOOSE s \in S : \A t \in S \ {s} : str_less(s, t)

\* sorted(S) for a set of texts
RECURSIVE SortedTexts(_)
SortedTexts(S) ==
    IF S = {} THEN <<>>
    ELSE <<MinText(S)>> \o SortedTexts(S \ {MinText(S)})

\* The largest number of rows of the data the item section is given.
MaxItemRows == 4

\* The (Item, item_kind) pairs the rows of the data are drawn from.
ItemRowPool ==
    << [Item |-> <<"A","l","l"," ","a","n","i","m","a","l","s">>, item_kind |-> <<"A","l","l">>],
       [Item |-> <<"L","i","v","e","s","t","o","c","k">>,   item_kind |-> <<"A","L","L"," ","A","N","I","M","A","L","S"," ">>],
       [Item |-> <<"C","a","t","t","l","e">>,      item_kind |-> <<"a","g","g","r","e","g","a","t","e","d">>],
       [Item |-> <<"P","o","u","l","t","r","y">>,     item_kind |-> <<"A","g","g","r","e","g","a","t","e">>],
       [Item |-> <<"S","h","e","e","p">>,       item_kind |-> <<"a","t","o","m","i","c">>],
       [Item |-> <<"G","o","a","t","s">>,       item_kind |-> <<"a","t","o","m","i","c">>],
       [Item |-> <<"A","s","s","e","s">>,       item_kind |-> <<"o","t","h","e","r">>] >>

\* The rows of the pool at the positions of P, in their order.
RECURSIVE ItemRowsAt(_)
ItemRowsAt(P) ==
    IF P = {} THEN <<>>
    ELSE LET i == CHOOSE k \in P : \A j \in P : k <= j
         IN  <<ItemRowPool[i]>> \o ItemRowsAt(P \ {i})

\* The data sets the item section is run on.
ItemDataSets ==
    { ItemRowsAt(P) : P \in { Q \in SUBSET DOMAIN ItemRowPool :
                                Cardinality(Q) \in 1..MaxItemRows } }

\* kinds_present
kinds_present == { normalize_kind_value(items_data[i].item_kind) : i \in DOMAIN items_data }

\* default_kind_label, as the value the radio maps it to
default_kind_value ==
    IF "All" \in kinds_present THEN "All"
    ELSE IF "aggregated" \in kinds_present THEN "aggregated"
    ELSE "atomic"

\* The values of the radio "Choose one group".
KIND_VALUES == {"All", "aggregated", "atomic"}

\* items_all for the group kind
items_all(kind) ==
    SortedTexts({ items_data[i].Item : i \in
        { j \in DOMAIN items_data : normalize_kind_value(items_data[j].item_kind) = kind } })

\* s[:1]
first_of(s) == IF s = <<>> THEN <<>> ELSE <<s[1]>>

\* A faulty variant of items_default that offers every item of the group 'All'.
items_default_all_items(kind) == items_all(kind)

\* items_all[:1] if kind_value == "All" else items_all
items_default(kind) ==
    IF kind = "All" THEN first_of(items_all(kind)) ELSE items_all(kind)

\* [d for d in st.session_state[ITEMS_KEY] if d in items_all], replaced by
\* the default when empty
valid_defaults(kind, stored) ==
    LET options == { items_all(kind)[i] : i \in DOMAIN items_all(kind) }
        valid   == SelectSeq(stored, LAMBDA d : d \in options)
    IN  IF valid = <<>> THEN items_default(kind) ELSE valid

\* One run of the item section with the radio on kind, the session state
\* it starts from, and the button that triggered it (if any).
RunItems(kind, has_items, stored, select_all, clear) ==
    LET initialised == IF ~has_items THEN items_default(kind) ELSE stored
        changed     == session_last_kind # kind
        reset       == IF changed THEN items_default(kind) ELSE initialised
        guarded     == valid_defaults(kind, reset)
        selected    == IF select_all THEN items_default(kind) ELSE guarded
        cleared     == IF clear THEN <<>> ELSE selected
    IN  /\ kind_value' = kind
        /\ kind_changed' = changed
        /\ session_last_kind' = kind
        /\ session_has_items' = TRUE
        /\ session_items' = cleared
        /\ UNCHANGED items_data
        /\ UNCHANGED <<main_vars, canon_vars, element_vars, filter_vars, dash_vars, preset_vars, years_vars>>

\* The selections the multiselect lets the user arrive at: lists of distinct
\* options, at most one with max_selections=1.
ItemSelections(kind) ==
    LET options == { items_all(kind)[i] : i \in DOMAIN items_all(kind) }
        most    == IF kind = "All" THEN 1 ELSE Cardinality(options)
    IN  { s \in UNION { [1..n -> options] : n \in 0..most } :
            \A i, j \in DOMAIN s : i # j => s[i] # s[j] }

InitItems ==
    /\ MainIdle
    /\ CanonIdle
    /\ ElementIdle
    /\ FilterIdle
    /\ DashIdle
    /\ PresetIdle
    /\ YearsIdle
    /\ items_data \in ItemDataSets
    /\ kind_value = "None"
    /\ kind_changed = FALSE
    /\ session_items = <<>>
    /\ session_has_items = FALSE
    /\ session_last_kind = "None"

\* The first run of a session: the radio shows default_kind_label.
FirstRun ==
    /\ kind_value = "None"
    /\ RunItems(default_kind_value, session_has_items, session_items, FALSE, FALSE)

\* The user picks another group in the radio, which reruns the script.
ChooseGroup ==
    /\ kind_value # "None"
    /\ \E k \in KIND_VALUES \ {kind_value} :
        RunItems(k, session_has_items, session_items, FALSE, FALSE)

\* The user clicks "Select all", which reruns the script.
ClickSelectAll ==
    /\ kind_value # "None"
    /\ RunItems(kind_value, session_has_items, session_items, TRUE, FALSE)

\* The user clicks "Clear", which reruns the script.
ClickClear ==
    /\ kind_value # "None"
    /\ RunItems(kind_value, session_has_items, session_items, FALSE, TRUE)

\* The user changes the multiselect, which stores the new list under
\* ITEMS_KEY and reruns the script.
PickItems ==
    /\ kind_value # "None"
    /\ \E s \in ItemSelections(kind_value) \ {session_items} :
        RunItems(kind_value, TRUE, s, FALSE, FALSE)

\* Another widget changes, which reruns the script.
RerunItems ==
    /\ kind_value # "None"
    /\ RunItems(kind_value, session_has_items, session_items, FALSE, FALSE)

NextItems ==
    \/ FirstRun
    \/ RerunItems
    \/ ChooseGroup
    \/ ClickSelectAll
    \/ ClickClear
    \/ PickItems

SpecItems == InitItems /\ [][NextItems]_vars

(***************************************************************************)
(* The dashboard: the series of the Time Series tab (region or countries)  *)
(***************************************************************************)
REGION_OPTIONS == <<"Europe", "EU", "EU/EEA+UK">>

\* FLAG_MAP, as the position of the flag in region_flags
FLAG_MAP == [r \in {"Europe", "EU", "EU/EEA+UK"} |->
                IF r = "Europe" THEN 1 ELSE IF r = "EU" THEN 2 ELSE 3]

\* The label of a region as the Area of its total.
REGION_LABEL == [r \in {"Europe", "EU", "EU/EEA+UK"} |->
                    IF r = "Europe" THEN <<"E","u","r","o","p","e">>
                    ELSE IF r = "EU" THEN <<"E","U">> ELSE <<"E","U","/","E","E","A","+","U","K">>]

\* Area.str.contains("(group total)", case=False): the pattern is a regular
\* expression, whose parentheses form a group.
is_group_total(area) == str_contains(str_lower(area), <<"g","r","o","u","p"," ","t","o","t","a","l">>)

\* The most countries of the Union in the data.
MaxPool == 12

\* Countries of the Union, in the order they are added to the data.
PoolCountries ==
    << <<"A","u","s","t","r","i","a">>, <<"B","e","l","g","i","u","m">>, <<"B","u","l","g","a","r","i","a">>, <<"C","r","o","a","t","i","a">>, <<"C","y","p","r","u","s">>,
       <<"C","z","e","c","h","i","a">>, <<"D","e","n","m","a","r","k">>, <<"E","s","t","o","n","i","a">>, <<"F","i","n","l","a","n","d">>, <<"F","r","a","n","c","e">>,
       <<"G","e","r","m","a","n","y">>, <<"G","r","e","e","c","e">>, <<"H","u","n","g","a","r","y">>, <<"I","r","e","l","a","n","d">> >>

\* A row of base with the flags the preprocessor gives its Area.
BaseRow(area, year, value) ==
    [Area |-> area, Year |-> year, Value |-> value, flags |-> region_flags(area)]

\* The rows of the i-th country of the Union: two items for the first.
PoolRows(i) ==
    LET v == (((i * 7) % 17) + 1) * 10
    IN  IF i = 1
        THEN <<BaseRow(PoolCountries[i], 2020, v - 30), BaseRow(PoolCountries[i], 2020, 30)>>
        ELSE <<BaseRow(PoolCountries[i], 2019, v + 5), BaseRow(PoolCountries[i], 2020, v)>>

RECURSIVE PoolRowsUpTo(_)
PoolRowsUpTo(n) == IF n = 0 THEN <<>> ELSE PoolRowsUpTo(n - 1) \o PoolRows(n)

\* The data sets base is drawn from: the first n countries of the Union,
\* with or without Norway, Switzerland, a group total and a country outside
\* Europe whose latest year is 2020 or 2021.
BaseDataSets ==
    { PoolRowsUpTo(n)
        \o (IF no THEN <<BaseRow(<<"N","o","r","w","a","y">>, 2020, 5)>> ELSE <<>>)
        \o (IF ch THEN <<BaseRow(<<"S","w","i","t","z","e","r","l","a","n","d">>, 2020, 3)>> ELSE <<>>)
        \o (IF gt THEN <<BaseRow(<<"E","U"," ","(","g","r","o","u","p"," ","t","o","t","a","l",")">>, 2020, 1000)>> ELSE <<>>)
        \o (IF pe = 0 THEN <<>> ELSE <<BaseRow(<<"P","e","r","u">>, pe, 500)>>) :
        n \in 0..(IF MaxPool < Len(PoolCountries) THEN MaxPool ELSE Len(PoolCountries)),
        no \in BOOLEAN, ch \in BOOLEAN, gt \in BOOLEAN, pe \in {0, 2020, 2021} }

\* The Areas of a table, as a set.
AreasOf(table) == { table[i].Area : i \in DOMAIN table }

\* available_countries, as a set
available_countries == { a \in AreasOf(preset_base) : ~is_group_total(a) }

\* pool
pool(choice) ==
    { preset_base[i].Area : i \in
        { j \in DOMAIN preset_base :
            /\ preset_base[j].flags[FLAG_MAP[choice]]
            /\ ~is_group_total(preset_base[j].Area) } }

\* sub["Year"].max()
latest_year == CHOOSE y \in { preset_base[i].Year : i \in DOMAIN preset_base } :
                  \A i \in DOMAIN preset_base : preset_base[i].Year <= y

\* latest
latest(choice) ==
    SelectSeq(preset_base, LAMBDA r : r.Year = latest_year /\ r.Area \in pool(choice))

\* groupby("Area")["Value"].sum() of a table, for one Area
RECURSIVE AreaSum(_, _)
AreaSum(table, area) ==
    IF table = <<>> THEN 0
    ELSE (IF Head(table).Area = area THEN Head(table).Value ELSE 0)
         + AreaSum(Tail(table), area)

\* The Areas of S by descending sum in table; equal sums in the order of
\* the groupby (ascending Area).
RECURSIVE RankedBySum(_, _)
RankedBySum(table, S) ==
    IF S = {} THEN <<>>
    ELSE LET top == CHOOSE a \in S : \A b \in S \ {a} :
                        \/ AreaSum(table, a) > AreaSum(table, b)
                        \/ AreaSum(table, a) = AreaSum(table, b) /\ str_less(a, b)
         IN  <<top>> \o RankedBySum(table, S \ {top})

\* ranked
ranked(choice) == RankedBySum(latest(choice), AreasOf(latest(choice)))

\* s[:10]
first_ten(s) == IF Len(s) <= 10 THEN s ELSE SubSeq(s, 1, 10)

\* keep in the mode "Preset (Top 10)"
preset_keep_of(choice, ch) ==
    LET top == first_ten(ranked(choice))
    IN  IF /\ ch
           /\ <<"S","w","i","t","z","e","r","l","a","n","d">> \in pool(choice)
           /\ <<"S","w","i","t","z","e","r","l","a","n","d">> \notin { top[i] : i \in DOMAIN top }
        THEN Append(top, <<"S","w","i","t","z","e","r","l","a","n","d">>)
        ELSE top

\* if keep: sub = sub[sub["Area"].isin(keep)]; the Areas of sub
series_areas(keep) ==
    IF keep # <<>>
    THEN { a \in AreasOf(preset_base) : a \in { keep[i] : i \in DOMAIN keep } }
    ELSE AreasOf(preset_base)

InitPreset ==
    /\ MainIdle
    /\ CanonIdle
    /\ ElementIdle
    /\ FilterIdle
    /\ DashIdle
    /\ ItemsIdle
    /\ YearsIdle
    /\ preset_base \in BaseDataSets
    /\ preset_mode = "None"
    /\ preset_choice = "None"
    /\ add_ch = FALSE
    /\ preset_keep = <<>>
    /\ preset_shown = {}
    /\ preset_pc = "start"

\* The end of a run of the series section.
PresetEnd(mode, choice, ch, keep, shown, at) ==
    /\ preset_mode' = mode
    /\ preset_choice' = choice
    /\ add_ch' = ch
    /\ preset_keep' = keep
    /\ preset_shown' = shown
    /\ preset_pc' = at
    /\ UNCHANGED preset_base
    /\ UNCHANGED <<main_vars, canon_vars, element_vars, filter_vars, dash_vars, items_vars, years_vars>>

\* base.empty: "No data for current filters."
NoDataForFilters ==
    /\ preset_pc = "start"
    /\ preset_base = <<>>
    /\ PresetEnd("None", "None", FALSE, <<>>, {}, "stopped")

\* show_region: the total of the countries flagged for region_choice
RegionTotal ==
    /\ preset_pc = "start"
    /\ preset_base # <<>>
    /\ \E r \in {"Europe", "EU", "EU/EEA+UK"} :
        IF pool(r) = {}
        THEN PresetEnd("Region", r, FALSE, <<>>, {}, "stopped")
        ELSE PresetEnd("Region", r, FALSE, <<>>, {REGION_LABEL[r]}, "charted")

\* mode == "Preset (Top 10)"
PresetTop10 ==
    /\ preset_pc = "start"
    /\ preset_base # <<>>
    /\ \E choice \in {"Europe", "EU", "EU/EEA+UK"}, ch \in BOOLEAN :
        LET keep == preset_keep_of(choice, ch)
        IN  PresetEnd("Preset (Top 10)", choice, ch, keep, series_areas(keep),
                      IF series_areas(keep) = {} THEN "stopped" ELSE "charted")

\* The largest number of countries picked in the mode "Custom".
MaxCustom == 1

\* mode == "Custom (pick countries)"
CustomCountries ==
    /\ preset_pc = "start"
    /\ preset_base # <<>>
    /\ \E selected \in { s \in UNION { [1..n -> available_countries] : n \in 0..MaxCustom } :
                            \A i, j \in DOMAIN s : i # j => s[i] # s[j] } :
        PresetEnd("Custom (pick countries)", "None", FALSE, selected,
                  series_areas(selected),
                  IF series_areas(selected) = {} THEN "stopped" ELSE "charted")

NextPreset ==
    \/ NoDataForFilters
    \/ RegionTotal
    \/ PresetTop10
    \/ CustomCountries

SpecPreset == InitPreset /\ [][NextPreset]_vars

(***************************************************************************)
(* The dashboard: the year bounds and the default values of the sliders    *)
(***************************************************************************)
\* The years the Year column is drawn from.
YearsOfData == {1961, 1985, 1989, 1990, 1991, 1992, 1993, 2000, 2021, 2022, 2023, 2030}

\* The largest number of distinct years in the data.
MaxYears == 2

\* The earliest default start: 1990 in the English script, 1992 in the
\* French one.
YEAR_FLOORS == {1990, 1992}

\* df["Year"].min()
MinOf(S) == CHOOSE y \in S : \A z \in S : y <= z

\* df["Year"].max()
MaxOf(S) == CHOOSE y \in S : \A z \in S : z <= y

\* max(a, b)
py_max(a, b) == IF b > a THEN b ELSE a

\* min(a, b)
py_min(a, b) == IF b < a THEN b ELSE a

InitYears ==
    /\ MainIdle
    /\ CanonIdle
    /\ ElementIdle
    /\ FilterIdle
    /\ DashIdle
    /\ ItemsIdle
    /\ PresetIdle
    /\ years_data \in { S \in SUBSET YearsOfData : Cardinality(S) \in 1..MaxYears }
    /\ years_floor \in YEAR_FLOORS
    /\ year_min = 0
    /\ year_max = 0
    /\ default_start = 0
    /\ default_end = 0
    /\ year_range = <<>>
    /\ year_pie = 0
    /\ year_map = 0
    /\ years_pc = "loaded"

\* year_min, year_max, DEFAULT_START and DEFAULT_END
YearDefaults ==
    /\ years_pc = "loaded"
    /\ year_min' = MinOf(years_data)
    /\ year_max' = MaxOf(years_data)
    /\ default_start' = py_max(years_floor, MinOf(years_data))
    /\ default_end' = py_min(2022, MaxOf(years_data))
    /\ years_pc' = "defaults"
    /\ UNCHANGED <<years_data, years_floor, year_range, year_pie, year_map>>
    /\ UNCHANGED <<main_vars, canon_vars, element_vars, filter_vars, dash_vars,
                   items_vars, preset_vars>>

\* st.slider("Year range", ..., value=(DEFAULT_START, DEFAULT_END))
TimeSlider ==
    /\ years_pc = "defaults"
    /\ year_range' = <<default_start, default_end>>
    /\ years_pc' = "time"
    /\ UNCHANGED <<years_data, years_floor, year_min, year_max, default_start,
                   default_end, year_pie, year_map>>
    /\ UNCHANGED <<main_vars, canon_vars, element_vars, filter_vars, dash_vars,
                   items_vars, preset_vars>>

\* st.slider("Pie year", ..., value=min(2022, year_max))
PieSlider ==
    /\ years_pc = "time"
    /\ year_pie' = py_min(2022, year_max)
    /\ years_pc' = "pie"
    /\ UNCHANGED <<years_data, years_floor, year_min, year_max, default_start,
                   default_end, year_range, year_map>>
    /\ UNCHANGED <<main_vars, canon_vars, element_vars, filter_vars, dash_vars,
                   items_vars, preset_vars>>

\* st.slider("Map year", ..., value=min(2022, year_max))
MapSlider ==
    /\ years_pc = "pie"
    /\ year_map' = py_min(2022, year_max)
    /\ years_pc' = "map"
    /\ UNCHANGED <<years_data, years_floor, year_min, year_max, default_start,
                   default_end, year_range, year_pie>>
    /\ UNCHANGED <<main_vars, canon_vars, element_vars, filter_vars, dash_vars,
                   items_vars, preset_vars>>

NextYears ==
    \/ YearDefaults
    \/ TimeSlider
    \/ PieSlider
    \/ MapSlider

SpecYears == InitYears /\ [][NextYears]_vars
(***************************************************************************)
(* Properties of the preprocessor                                          *)
(***************************************************************************)
Out == out_file.rows

Written == pc = "written"

\* The output rows of one key.
OutRowsAt(a, i, y, m) ==
    SelectSeq(Out, LAMBDA r : r.Area = a /\ r.Item = i /\ r.Year = y /\ r.Metric = m)

\* The Stocks rows of the long table of one (Area, Item, Year).
StockRowsAt(a, i, y) ==
    SelectSeq(long, LAMBDA r : /\ r.ElementNorm = "Stocks"
                               /\ r.Area = a /\ r.Item = i /\ r.Year = y)

\* The (Area, Year) keys of the Stocks rows with one of the labels items.
StockKeys(items) ==
    { <<long[i].Area, long[i].Year>> :
        i \in { j \in DOMAIN long : /\ long[j].ElementNorm = "Stocks"
                                    /\ long[j].Item \in items } }

AtomicCattleKeys == StockKeys({CATTLE_DAIRY, CATTLE_NON_DAIRY})

\* The (Area, Year) keys whose generic Cattle stock is split.
SplitKeys ==
    IF split_cattle THEN StockKeys({CATTLE}) \ AtomicCattleKeys ELSE {}

\* C1: no two output rows share the same (Area, Item, Year, Metric).
C1_KeyUniqueness ==
    \A i, j \in DOMAIN Out :
        ( /\ Out[i].Area = Out[j].Area /\ Out[i].Item = Out[j].Item
          /\ Out[i].Year = Out[j].Year /\ Out[i].Metric = Out[j].Metric ) => i = j

\* C2: with splitting enabled, at every (Area, Year) that has an atomic cattle
\* Stocks row, the LSU of "Cattle, dairy" and of "Cattle, non-dairy" is the
\* weighted sum of the atomic Stocks rows of that label alone (and there is no
\* such LSU row when there is no such Stocks row): the generic row adds nothing.
C2_SplitGuard ==
    (Written /\ split_cattle) =>
        \A k \in AtomicCattleKeys : \A item \in {CATTLE_DAIRY, CATTLE_NON_DAIRY} :
            LET src == StockRowsAt(k[1], item, k[2])
                got == OutRowsAt(k[1], item, k[2], "LSU")
            IN  IF src = <<>>
                THEN got = <<>>
                ELSE /\ Len(got) = 1
                     /\ got[1].Value =
                            Num(SumValues(src) * 100 * default_lsu_weight(item))

\* A run that wrote its output, with splitting enabled, for an input with a
\* non-zero generic Cattle stock at a key that also has an atomic cattle row;
\* the generic row is kept as an LSU row of "Cattle".
C2_Witness ==
    /\ Written /\ split_cattle
    /\ \E k \in AtomicCattleKeys :
          /\ SumValues(StockRowsAt(k[1], CATTLE, k[2])) > 0
          /\ OutRowsAt(k[1], CATTLE, k[2], "LSU") # <<>>

\* The input of the scenario: the one row (Austria, Cattle, Stock, Y2020=100).
ScenarioInput ==
    /\ columns = <<COL_AREA, COL_ITEM, COL_ELEMENT, <<"Y","2","0","2","0">>>>
    /\ Len(rows) = 1
    /\ rows[1][COL_AREA] = <<"A","u","s","t","r","i","a">>
    /\ rows[1][COL_ITEM] = CATTLE
    /\ rows[1][COL_ELEMENT] = <<"S","t","o","c","k">>
    /\ rows[1][<<"Y","2","0","2","0">>] = Num(100)

\* C3: the scenario input under the default options yields the LSU rows
\* "Cattle, dairy" = 35 and "Cattle, non-dairy" = 52 for 2020, both with
\* region_EU (LSU values are in ten-thousandths).
C3_SplitScenario ==
    (Written /\ ScenarioInput /\ args = DefaultArgs) =>
        /\ \E r \in { Out[i] : i \in DOMAIN Out } :
              /\ r.Metric = "LSU" /\ r.Item = CATTLE_DAIRY /\ r.Year = 2020
              /\ r.Value = Num(35 * 100 * 100) /\ r.region_EU
        /\ \E r \in { Out[i] : i \in DOMAIN Out } :
              /\ r.Metric = "LSU" /\ r.Item = CATTLE_NON_DAIRY /\ r.Year = 2020
              /\ r.Value = Num(52 * 100 * 100) /\ r.region_EU

\* The generic Cattle stock of an (Area, Year) key.
GenericStock(k) == SumValues(StockRowsAt(k[1], CATTLE, k[2]))

\* The LSU of one label at an (Area, Year) key.
LsuAt(k, item) == SumValues(OutRowsAt(k[1], item, k[2], "LSU"))

GasKeys ==
    { <<Out[i].Area, Out[i].Item, Out[i].Year>> :
        i \in { j \in DOMAIN Out :
                  Out[j].Metric \in {"CH4_CO2e", "N2O_CO2e", "Total_CO2e"} } }

\* C5: every key with a CH4_CO2e or N2O_CO2e row has one Total_CO2e row,
\* whose value is the sum of the two, a missing one counting as zero.
C5_TotalDerivation ==
    Written =>
        \A k \in GasKeys :
            LET ch4 == OutRowsAt(k[1], k[2], k[3], "CH4_CO2e")
                n2o == OutRowsAt(k[1], k[2], k[3], "N2O_CO2e")
                tot == OutRowsAt(k[1], k[2], k[3], "Total_CO2e")
            IN  /\ Len(ch4) <= 1 /\ Len(n2o) <= 1 /\ Len(tot) = 1
                /\ ch4 # <<>> \/ n2o # <<>>
                /\ tot[1].Value = Num(SumValues(ch4) + SumValues(n2o))

\* A written output with a key that has a non-zero CH4_CO2e row and a
\* non-zero N2O_CO2e row.
C5_Witness ==
    /\ Written
    /\ \E k \in GasKeys :
          /\ SumValues(OutRowsAt(k[1], k[2], k[3], "CH4_CO2e")) > 0
          /\ SumValues(OutRowsAt(k[1], k[2], k[3], "N2O_CO2e")) > 0

\* C6: a run that ended in a fatal error has not written the output file,
\* and the output file is written only by a run that passed every stage.
C6_NoPartialOutput ==
    /\ pc = "exit" => (~out_file.written /\ out_file.rows = <<>>)
    /\ out_file.written => pc = "written"

\* A run over a non-empty table that passed validation and derivation and
\* then ended with nothing to write.
C6_Witness ==
    /\ pc = "exit"
    /\ exit_msg.kind = "Nothing to write"
    /\ rows # <<>>

\* A column name of the form Y<digits>.
IsYForm(c) ==
    /\ Len(c) >= 2
    /\ c[1] = "Y"
    /\ \A i \in 2..Len(c) : c[i] \in DigitChars

\* The required columns the input lacks.
AbsentColumns ==
    { c \in {COL_AREA, COL_ITEM, COL_ELEMENT} :
        \A k \in DOMAIN columns : columns[k] # c }

\* C7: once the input is validated, a run whose input lacks a required
\* column has exited naming exactly the absent columns; otherwise a run whose
\* input has no Y<digits> column has exited for want of year columns;
\* otherwise validation passed and year_cols are exactly the Y<digits> columns.
C7_SchemaValidation ==
    (input_exists /\ pc \notin {"start", "opened"}) =>
        IF AbsentColumns # {}
        THEN /\ pc = "exit"
             /\ exit_msg.kind = "CSV missing columns"
             /\ { exit_msg.cols[i] : i \in DOMAIN exit_msg.cols } = AbsentColumns
             /\ Len(exit_msg.cols) = Cardinality(AbsentColumns)
        ELSE IF \A k \in DOMAIN columns : ~IsYForm(columns[k])
        THEN /\ pc = "exit"
             /\ exit_msg.kind = "No year columns found"
        ELSE /\ exit_msg.kind \notin {"CSV missing columns", "No year columns found"}
             /\ { year_cols[i] : i \in DOMAIN year_cols }
                   = { columns[k] : k \in { j \in DOMAIN columns : IsYForm(columns[j]) } }

\* A run that exited naming two absent columns.
C7_Witness ==
    /\ pc = "exit"
    /\ exit_msg.kind = "CSV missing columns"
    /\ Len(exit_msg.cols) = 2

\* An Item outside the three reference vocabularies.
Unmatched(item) ==
    str_lower(item) \notin (ALL_ANIMALS_LOWER \cup AGGREGATE_LOWER \cup ATOMIC_LOWER)

\* C8: every output row has an item_kind among All, aggregated and atomic,
\* the one flag of is_all, is_aggregated, is_atomic that matches it is the
\* only one set, and an Item outside the three vocabularies is atomic.
C8_Classification ==
    \A i \in DOMAIN Out :
        /\ Out[i].item_kind \in {"All", "aggregated", "atomic"}
        /\ Out[i].is_all = (Out[i].item_kind = "All")
        /\ Out[i].is_aggregated = (Out[i].item_kind = "aggregated")
        /\ Out[i].is_atomic = (Out[i].item_kind = "atomic")
        /\ Unmatched(Out[i].Item) => Out[i].item_kind = "atomic"

\* A written output with a row whose Item is outside the three vocabularies.
C8_Witness ==
    /\ Written
    /\ \E i \in DOMAIN Out : Unmatched(Out[i].Item)

\* C9: the region flags of an output row are the memberships of its trimmed
\* Area in the three name sets, so rows of the same Area carry the same flags.
C9_RegionFlags ==
    /\ \A i \in DOMAIN Out :
          /\ Out[i].region_europe = (str_strip(Out[i].Area) \in EUROPE_WIDE)
          /\ Out[i].region_EU = (str_strip(Out[i].Area) \in EU)
          /\ Out[i].region_EUEEAUK = (str_strip(Out[i].Area) \in EEA_PLUS_UK)
    /\ \A i, j \in DOMAIN Out :
          Out[i].Area = Out[j].Area =>
              /\ Out[i].region_europe = Out[j].region_europe
              /\ Out[i].region_EU = Out[j].region_EU
              /\ Out[i].region_EUEEAUK = Out[j].region_EUEEAUK

\* A written output with two rows of the same Area, of different Items, in
\* Europe but outside the EU.
C9_Witness ==
    /\ Written
    /\ \E i, j \in DOMAIN Out :
          /\ Out[i].Area = Out[j].Area
          /\ Out[i].Item # Out[j].Item
          /\ Out[i].region_europe /\ ~Out[i].region_EU

\* C10: canonicalizing a canonical label changes nothing, and Cattle,
\* "Cattle, dairy" and "Cattle, non-dairy" are canonical.
C10_Idempotence ==
    /\ canon_pc = "twice" => canon_twice = canon_once
    /\ (canon_pc \in {"once", "twice"}
          /\ label \in {CATTLE, CATTLE_DAIRY, CATTLE_NON_DAIRY}) => canon_once = label

\* A label the canonicalizer changed to "Cattle, non-dairy", canonicalized twice.
C10_Witness ==
    /\ canon_pc = "twice"
    /\ canon_once = CATTLE_NON_DAIRY
    /\ label # CATTLE_NON_DAIRY


\* The lowercased, whitespace-normalized form of a label.
NormalizedLabel(item) == re_sub_spaces(str_lower(str_strip(item)))

\* The label names cattle.
NamesCattle(item) ==
    str_contains(NormalizedLabel(item), <<"c","a","t","t","l","e">>) \/ str_contains(NormalizedLabel(item), <<"b","o","v","i","n","e">>)

\* The label matches "non-dairy", "non dairy" with any whitespace between the
\* words, or "nondairy".
MatchesNonDairy(item) ==
    \/ re_search_word(NormalizedLabel(item), <<"n","o","n","-","d","a","i","r","y">>)
    \/ re_search_word(NormalizedLabel(item), <<"n","o","n"," ","d","a","i","r","y">>)
    \/ re_search_word(NormalizedLabel(item), <<"n","o","n","d","a","i","r","y">>)

MatchesOther(item) == re_search_word(NormalizedLabel(item), <<"o","t","h","e","r">>)

MatchesDairy(item) == re_search_word(NormalizedLabel(item), <<"d","a","i","r","y">>)

\* C11: a label that names cattle canonicalizes to "Cattle, non-dairy" when it
\* matches non-dairy (however much whitespace separates "non" and "dairy") or
\* other, else to "Cattle, dairy" when it matches dairy, else to "Cattle".
C11_NonDairyPrecedence ==
    (canon_pc \in {"once", "twice"} /\ NamesCattle(label)) =>
        canon_once = IF MatchesNonDairy(label) \/ MatchesOther(label) THEN CATTLE_NON_DAIRY
                     ELSE IF MatchesDairy(label) THEN CATTLE_DAIRY
                     ELSE CATTLE

\* The trimmed, lowercased Element label holds the word w.
ElementHasWord(w) == re_search_word(str_lower(str_strip(element)), w)

\* C12: an Element label with the word stock or stocks normalizes to Stocks,
\* else one with the word ch4 or methane to CH4, else one with the word n2o or
\* nitrous to N2O, and any other label is unrecognized.
C12_ElementNormalization ==
    element_pc = "done" =>
        element_norm =
            IF ElementHasWord(<<"s","t","o","c","k">>) \/ ElementHasWord(<<"s","t","o","c","k","s">>) THEN "Stocks"
            ELSE IF ElementHasWord(<<"c","h","4">>) \/ ElementHasWord(<<"m","e","t","h","a","n","e">>) THEN "CH4"
            ELSE IF ElementHasWord(<<"n","2","o">>) \/ ElementHasWord(<<"n","i","t","r","o","u","s">>) THEN "N2O"
            ELSE "None"

\* The places of the input rows.
InputPlaces == [i \in 1..Len(rows) |-> i]

\* The key under which input row i reaches the output.
AreaOfInput(i) == str_strip(rows[i][COL_AREA])

ItemOfInput(i) == canonical_item(str_strip(rows[i][COL_ITEM]))

\* Input row i is not on the stoplist and its Element normalizes to elnorm.
IsInputOf(i, elnorm) ==
    /\ ~IsExcluded(rows[i][COL_ITEM])
    /\ normalize_element(str_strip(rows[i][COL_ELEMENT])) = elnorm

\* The Element of input row i holds both "livestock" and "total".
NamesLivestockTotal(i) ==
    /\ str_contains(str_lower(rows[i][COL_ELEMENT]), <<"l","i","v","e","s","t","o","c","k">>)
    /\ str_contains(str_lower(rows[i][COL_ELEMENT]), <<"t","o","t","a","l">>)

\* The cells of year column c of the input rows of elnorm at (a, it) that
\* pass the livestock-total restriction when restricted is true.
InputCells(elnorm, a, it, c, restricted) ==
    LET sel == SelectSeq(InputPlaces,
                   LAMBDA i : /\ IsInputOf(i, elnorm)
                              /\ AreaOfInput(i) = a /\ ItemOfInput(i) = it
                              /\ (restricted => NamesLivestockTotal(i)))
    IN  [k \in 1..Len(sel) |-> [Value |-> rows[sel[k]][c]]]

YearOf(c) == str_to_int(Tail(c))

\* The (Area, Item) pairs of the input rows of a gas.
GasInputPairs ==
    { <<AreaOfInput(i), ItemOfInput(i)>> :
        i \in { j \in 1..Len(rows) : IsInputOf(j, "CH4") \/ IsInputOf(j, "N2O") } }

\* The (Area, Item) pairs of the Stocks input rows.
StockInputPairs ==
    { <<AreaOfInput(i), ItemOfInput(i)>> :
        i \in { j \in 1..Len(rows) : IsInputOf(j, "Stocks") } }

\* The output rows of metric m at (a, it, y) are exactly one row of value v
\* when present is true, and none otherwise.
OutIs(a, it, y, m, present, v) ==
    IF present
    THEN /\ Len(OutRowsAt(a, it, y, m)) = 1
         /\ OutRowsAt(a, it, y, m)[1].Value = Num(v)
    ELSE OutRowsAt(a, it, y, m) = <<>>

\* C13: with the restriction on, only the gas rows whose Element holds both
\* "livestock" and "total" are summed into CH4_CO2e, N2O_CO2e and Total_CO2e,
\* and a key without such a row has no gas row in the output; with the
\* restriction off every gas row is summed.  Every Stocks row is kept either way.
C13_LivestockTotalOnly ==
    Written =>
        /\ \A p \in GasInputPairs : \A k \in DOMAIN year_cols :
              LET c   == year_cols[k]
                  ch4 == InputCells("CH4", p[1], p[2], c, only_lt)
                  n2o == InputCells("N2O", p[1], p[2], c, only_lt)
              IN  /\ OutIs(p[1], p[2], YearOf(c), "CH4_CO2e", ch4 # <<>>,
                           SumValues(ch4) * GWP_CH4)
                  /\ OutIs(p[1], p[2], YearOf(c), "N2O_CO2e", n2o # <<>>,
                           SumValues(n2o) * GWP_N2O)
                  /\ OutIs(p[1], p[2], YearOf(c), "Total_CO2e", ch4 # <<>> \/ n2o # <<>>,
                           SumValues(ch4) * GWP_CH4 + SumValues(n2o) * GWP_N2O)
        /\ \A p \in StockInputPairs : \A k \in DOMAIN year_cols :
              Len(OutRowsAt(p[1], p[2], YearOf(year_cols[k]), "Stocks"))
                  = Len(InputCells("Stocks", p[1], p[2], year_cols[k], FALSE))

\* A run with the restriction on that wrote its output for an input with two
\* CH4 rows of the same key, one a livestock total and one not, both non-zero:
\* the output sums the livestock total alone.
C13_Witness ==
    /\ Written /\ only_lt
    /\ \E p \in GasInputPairs : \E k \in DOMAIN year_cols :
          /\ SumValues(InputCells("CH4", p[1], p[2], year_cols[k], TRUE)) > 0
          /\ SumValues(InputCells("CH4", p[1], p[2], year_cols[k], FALSE))
                > SumValues(InputCells("CH4", p[1], p[2], year_cols[k], TRUE))
          /\ OutRowsAt(p[1], p[2], YearOf(year_cols[k]), "CH4_CO2e") # <<>>

\* C14: a run whose filtered table is empty produces no metric table, exits
\* with "Nothing to write" and writes no file; a written output has at least
\* one data row.
C14_EmptyResult ==
    /\ (pc = "derived" /\ df = <<>>) => prepared = <<>>
    /\ (pc = "exit" /\ exit_msg.kind = "Nothing to write") =>
          (df = <<>> /\ ~out_file.written)
    /\ Written => (df # <<>> /\ out_file.written /\ Len(Out) >= 1)

\* A run that exited with "Nothing to write" for an input with year columns
\* and data rows, all of which were filtered out.
C14_Witness ==
    /\ pc = "exit"
    /\ exit_msg.kind = "Nothing to write"
    /\ rows # <<>>
    /\ ~out_file.written

\* C15: whenever the dashboard was given a CSV (at the default path, or
\* uploaded when that path does not exist) that lacks a required column, the
\* run is stopped with the error that names the missing columns, and no tab
\* is rendered.
C15_DashboardSchemaGuard ==
    /\ dash_tabs => DashMiss = {}
    /\ ( /\ dash_pc \notin {"off", "start"}
         /\ dash_path_exists \/ dash_uploaded
         /\ DashMiss # {} ) =>
            /\ dash_pc = "stopped"
            /\ dash_msg = [kind |-> "Prepared CSV missing columns",
                           cols |-> DashSortedMiss]

\* The pair the convention name selects, in tenths: the name is trimmed and
\* compared without regard to case; any other name selects the default pair.
SelectedGwp ==
    LET n == str_lower(str_strip(args.gwp)) IN
    IF n = <<"a","r","4">> THEN <<250, 2980>>
    ELSE IF n = <<"a","r","5">> THEN <<280, 2650>>
    ELSE IF n = <<"a","r","6","_","n","o","c","c","f">> THEN <<272, 2730>>
    ELSE IF n = <<"a","r","6","_","c","c","f">> THEN <<298, 2730>>
    ELSE <<272, 2730>>

\* The rows of the long table of one normalized Element at one key.
LongRowsAt(elnorm, a, i, y) ==
    SelectSeq(long, LAMBDA r : /\ r.ElementNorm = elnorm
                               /\ r.Area = a /\ r.Item = i /\ r.Year = y)

\* C16: the factors main() uses are the pair its --gwp name selects, every
\* CH4_CO2e value is the sum of the CH4 values of its key times the CH4 factor
\* and every N2O_CO2e value the sum of the N2O values times the N2O factor.
C16_GwpSelection ==
    /\ pc # "off" => <<GWP_CH4, GWP_N2O>> = SelectedGwp
    /\ Written =>
          \A i \in DOMAIN Out :
              /\ Out[i].Metric = "CH4_CO2e" =>
                    /\ LongRowsAt("CH4", Out[i].Area, Out[i].Item, Out[i].Year) # <<>>
                    /\ Out[i].Value =
                          Num(SumValues(LongRowsAt("CH4", Out[i].Area, Out[i].Item,
                                                   Out[i].Year)) * SelectedGwp[1])
              /\ Out[i].Metric = "N2O_CO2e" =>
                    /\ LongRowsAt("N2O", Out[i].Area, Out[i].Item, Out[i].Year) # <<>>
                    /\ Out[i].Value =
                          Num(SumValues(LongRowsAt("N2O", Out[i].Area, Out[i].Item,
                                                   Out[i].Year)) * SelectedGwp[2])

\* A written output with non-zero CH4_CO2e and N2O_CO2e rows, for a --gwp
\* name that selects a pair other than the default only once it is trimmed
\* and its case ignored.
C16_Witness ==
    /\ Written
    /\ SelectedGwp # <<272, 2730>>
    /\ GWP_TABLE(args.gwp) = <<272, 2730>>
    /\ \E i, j \in DOMAIN Out :
          /\ Out[i].Metric = "CH4_CO2e" /\ Out[i].Value # NaN /\ Out[i].Value[1] > 0
          /\ Out[j].Metric = "N2O_CO2e" /\ Out[j].Value # NaN /\ Out[j].Value[1] > 0

\* The stoplist.
Stoplist == {<<"c","h","i","c","k","e","n","s">>, <<"m","u","l","e","s"," ","a","n","d"," ","h","i","n","n","i","e","s">>, <<"(","b","l","a","n","k",")">>, <<>>}

OnStoplist(item) == str_lower(str_strip(item)) \in Stoplist

\* The table main() writes for the input table and the options of this run.
OutputFor(table) ==
    Output(Prepared(Melt(Filtered(Canonicalized(table), only_lt), year_cols),
                    GWP_CH4, GWP_N2O, split_cattle, dairy_frac))

FilterOut == filter_out_file

\* The Metric of row r, trimmed and lowercased, is "total_co2e" or "stocks"
\* once its spaces are read as underscores.
MetricWanted(r) ==
    /\ r["Metric"].t = "str"
    /\ str_lower(str_strip(r["Metric"].s))
          \in {<<"t","o","t","a","l","_","c","o","2","e">>, <<"t","o","t","a","l"," ","c","o","2","e">>, <<"s","t","o","c","k","s">>}

\* The Value of row r is there and is not 0.
ValueNeitherZeroNorMissing(r) ==
    /\ "Value" \in FilterColumnSet
    /\ r["Value"].t # "nan"
    /\ ~(r["Value"].t = "num" /\ r["Value"].n = 0)

\* The Value of row r is a number other than 0.
ValueNonZeroNumber(r) == r["Value"].t = "num" /\ r["Value"].n # 0

\* The output has the columns of the input, each once.
SameColumns ==
    /\ Len(FilterOut.columns) = Len(filter_columns)
    /\ { FilterOut.columns[k] : k \in DOMAIN FilterOut.columns } = FilterColumnSet

C19_FilterErrors ==
    /\ (filter_pc \in {"read", "exit", "written"} /\ "Metric" \notin FilterColumnSet) =>
          ~FilterOut.written
    /\ (filter_pc \in {"exit", "written"} /\ ~filter_input_exists) =>
          /\ filter_pc = "exit"
          /\ filter_exit_msg = "Input not found"
          /\ ~FilterOut.written
    /\ ( /\ filter_pc \in {"exit", "written"}
         /\ filter_input_exists
         /\ "Metric" \notin FilterColumnSet ) =>
          /\ filter_pc = "exit"
          /\ filter_exit_msg = "This file has no 'Metric' column"
    /\ filter_pc = "read" => filter_input_exists

\* A run that ended with the Metric error for an input with data rows.
C19_Witness ==
    /\ filter_pc = "exit"
    /\ filter_exit_msg = "This file has no 'Metric' column"
    /\ filter_rows # <<>>
    /\ ~FilterOut.written

(***************************************************************************)
(* The unsplit fallback of the preprocessor                                *)
(***************************************************************************)
\* The (Area, Year) keys whose generic Cattle stock is not split.
UnsplitKeys == StockKeys({CATTLE}) \ SplitKeys

\* The input of the guarded scenario: the rows (Austria, Cattle, Stock,
\* Y2020=100) and (Austria, "Cattle, dairy", Stock, Y2020=10).
GuardedScenarioInput ==
    /\ columns = <<COL_AREA, COL_ITEM, COL_ELEMENT, <<"Y","2","0","2","0">>>>
    /\ Len(rows) = 2
    /\ \A i \in 1..2 : /\ rows[i][COL_AREA] = <<"A","u","s","t","r","i","a">>
                       /\ rows[i][COL_ELEMENT] = <<"S","t","o","c","k">>
    /\ rows[1][COL_ITEM] = CATTLE /\ rows[1][<<"Y","2","0","2","0">>] = Num(100)
    /\ rows[2][COL_ITEM] = CATTLE_DAIRY /\ rows[2][<<"Y","2","0","2","0">>] = Num(10)

\* C20: at every key where the generic Cattle stock is not split (the guard
\* blocks it, or splitting is off) the output has one LSU row for "Cattle",
\* of the generic stock times 0.8; in the guarded scenario under the default
\* options the LSU rows of 2020 are "Cattle, dairy" = 10 and "Cattle" = 80,
\* with none for "Cattle, non-dairy" (LSU values are in ten-thousandths).
C20_UnsplitFallback ==
    /\ Written =>
          \A k \in UnsplitKeys :
              /\ Len(OutRowsAt(k[1], CATTLE, k[2], "LSU")) = 1
              /\ OutRowsAt(k[1], CATTLE, k[2], "LSU")[1].Value
                    = Num(GenericStock(k) * 100 * 80)
    /\ (Written /\ GuardedScenarioInput /\ args = DefaultArgs) =>
          /\ Len(OutRowsAt(<<"A","u","s","t","r","i","a">>, CATTLE_DAIRY, 2020, "LSU")) = 1
          /\ OutRowsAt(<<"A","u","s","t","r","i","a">>, CATTLE_DAIRY, 2020, "LSU")[1].Value
                = Num(10 * 100 * 100)
          /\ OutRowsAt(<<"A","u","s","t","r","i","a">>, CATTLE_NON_DAIRY, 2020, "LSU") = <<>>
          /\ Len(OutRowsAt(<<"A","u","s","t","r","i","a">>, CATTLE, 2020, "LSU")) = 1
          /\ OutRowsAt(<<"A","u","s","t","r","i","a">>, CATTLE, 2020, "LSU")[1].Value
                = Num(80 * 100 * 100)

\* The guarded scenario, run to the end under the default options.
C20_Witness ==
    /\ Written
    /\ GuardedScenarioInput
    /\ args = DefaultArgs
    /\ UnsplitKeys # {}

(***************************************************************************)
(* Further properties of the preprocessor                                  *)
(***************************************************************************)
\* The directories that exist before main() runs.
InitialDirs == {path_parent(InputPath)}

\* C21: a run that exited because a required column is missing or because
\* there is no year column has created no directory and written no file.
C21_ValidationNoSideEffect ==
    (pc = "exit" /\ exit_msg.kind \in {"CSV missing columns", "No year columns found"}) =>
        /\ fs_dirs = InitialDirs
        /\ ~out_file.written

\* C22: a label that holds neither "cattle" nor "bovine" canonicalizes to
\* itself with the whitespace at its ends removed and every run of whitespace
\* inside it collapsed to one space, its case kept.
C22_PassThroughCollapsed ==
    ( /\ canon_pc \in {"once", "twice"}
      /\ ~str_contains(str_lower(label), <<"c","a","t","t","l","e">>)
      /\ ~str_contains(str_lower(label), <<"b","o","v","i","n","e">>) ) =>
        canon_once = re_sub_spaces(str_strip(label))

\* The rows of the filtered wide table whose Element is a gas.
SurvivingGasRows ==
    SelectSeq(df, LAMBDA r : normalize_element(r[COL_ELEMENT]) \in {"CH4", "N2O"})

\* The output rows of metric m.
OutRowsOf(m) == SelectSeq(Out, LAMBDA r : r.Metric = m)

\* C23: the output has Total_CO2e rows exactly when a CH4 or N2O row survived
\* the filters; every (Area, Item, Year) with a CH4_CO2e or N2O_CO2e row has
\* exactly one Total_CO2e row, and no other key has one.
C23_TotalEmission ==
    Written =>
        /\ (OutRowsOf("Total_CO2e") # <<>>) <=> (SurvivingGasRows # <<>>)
        /\ \A i \in DOMAIN Out :
              Out[i].Metric \in {"CH4_CO2e", "N2O_CO2e"} =>
                  Len(OutRowsAt(Out[i].Area, Out[i].Item, Out[i].Year, "Total_CO2e")) = 1
        /\ \A i \in DOMAIN Out :
              Out[i].Metric = "Total_CO2e" =>
                  \/ OutRowsAt(Out[i].Area, Out[i].Item, Out[i].Year, "CH4_CO2e") # <<>>
                  \/ OutRowsAt(Out[i].Area, Out[i].Item, Out[i].Year, "N2O_CO2e") # <<>>

\* A written output with Stocks rows and a Total_CO2e row at a key that has
\* an N2O_CO2e row and no CH4_CO2e row.
C23_Witness ==
    /\ Written
    /\ OutRowsOf("Stocks") # <<>>
    /\ OutRowsOf("CH4_CO2e") = <<>>
    /\ \E i \in DOMAIN Out :
          /\ Out[i].Metric = "Total_CO2e"
          /\ OutRowsAt(Out[i].Area, Out[i].Item, Out[i].Year, "N2O_CO2e") # <<>>

\* The item section has run at least once.
ItemsRan == kind_value # "None"

\* The items stored under ITEMS_KEY, as a set.
StoredItems == { session_items[i] : i \in DOMAIN session_items }

\* C24: after every run of the item section, a run that saw another group
\* than the previous run leaves the stored selection at the default of the
\* new group (the first available item for 'All', every available item
\* otherwise); the stored selection has only items available for the
\* current group, and at most one item when the group is 'All'.
C24_ItemSelection ==
    ItemsRan =>
        /\ session_last_kind = kind_value
        /\ kind_changed =>
            session_items = (IF kind_value = "All"
                             THEN (IF items_all("All") = <<>> THEN <<>> ELSE <<items_all("All")[1]>>)
                             ELSE items_all(kind_value))
        /\ StoredItems \subseteq { items_all(kind_value)[i] : i \in DOMAIN items_all(kind_value) }
        /\ kind_value = "All" => Len(session_items) <= 1

\* In data that has the group 'All' and two aggregated items, the user moved
\* the radio from the default group to 'Aggregated', and the selection was
\* reset to both items.
C24_Witness ==
    /\ ItemsRan
    /\ kind_changed
    /\ default_kind_value = "All"
    /\ kind_value = "aggregated"
    /\ session_items = <<<<"C","a","t","t","l","e">>, <<"P","o","u","l","t","r","y">>>>

\* The mode "Preset (Top 10)" drew its chart.
PresetCharted == preset_pc = "charted" /\ preset_mode = "Preset (Top 10)"

\* Every row of base with the Area is flagged for the region.
FlaggedFor(area, choice) ==
    \A i \in DOMAIN preset_base :
        preset_base[i].Area = area => preset_base[i].flags[FLAG_MAP[choice]]

\* The sum of the Values of an Area in the latest year of base.
LatestSum(area) ==
    AreaSum(SelectSeq(preset_base, LAMBDA r : r.Year = latest_year), area)

\* The countries of the region pool with a row in the latest year.
RankedPool(choice) ==
    { a \in AreasOf(preset_base) :
        /\ FlaggedFor(a, choice)
        /\ ~str_contains(str_lower(a), <<"(","g","r","o","u","p"," ","t","o","t","a","l",")">>)
        /\ \E i \in DOMAIN preset_base :
              preset_base[i].Area = a /\ preset_base[i].Year = latest_year }

\* Switzerland was asked for and belongs to the region pool.
SwitzerlandAdded ==
    /\ add_ch
    /\ <<"S","w","i","t","z","e","r","l","a","n","d">> \in AreasOf(preset_base)
    /\ FlaggedFor(<<"S","w","i","t","z","e","r","l","a","n","d">>, preset_choice)

\* C25: in the mode "Preset (Top 10)" every displayed country is flagged for
\* the chosen region and is not a "(group total)" row; at most 10 countries
\* are displayed, those with the largest sums of Value in the latest year of
\* the filtered data, plus Switzerland when its box is ticked and it belongs
\* to the region pool.
C25_PresetTop10 ==
    PresetCharted =>
        LET top == preset_shown \ (IF SwitzerlandAdded THEN {<<"S","w","i","t","z","e","r","l","a","n","d">>} ELSE {})
        IN  /\ \A a \in preset_shown :
                  /\ FlaggedFor(a, preset_choice)
                  /\ ~str_contains(str_lower(a), <<"(","g","r","o","u","p"," ","t","o","t","a","l",")">>)
            /\ Cardinality(top) <= 10
            /\ \A a \in top : \A b \in RankedPool(preset_choice) \ preset_shown :
                  LatestSum(a) >= LatestSum(b)
            /\ SwitzerlandAdded => <<"S","w","i","t","z","e","r","l","a","n","d">> \in preset_shown

\* The dairy-share percentage as the fraction of the claim, in hundredths:
\* 0 below 0, 1 above 100.
ClampedShare ==
    IF args.dairy_share < 0 THEN 0
    ELSE IF args.dairy_share > 100 THEN 100
    ELSE args.dairy_share

\* C26: with f the dairy share clamped to [0, 1], at every key where a
\* generic Cattle stock S >= 0 is split the stock given to 'Cattle, dairy'
\* is S*f and the stock given to 'Cattle, non-dairy' is S*(1-f) (read from
\* their LSU rows, whose weight is 1.0); both are non-negative and sum to S.
C26_ClampedSplit ==
    Written =>
        \A k \in SplitKeys :
            GenericStock(k) >= 0 =>
                /\ LsuAt(k, CATTLE_DAIRY) = GenericStock(k) * ClampedShare * 100
                /\ LsuAt(k, CATTLE_NON_DAIRY) = GenericStock(k) * (100 - ClampedShare) * 100
                /\ LsuAt(k, CATTLE_DAIRY) >= 0
                /\ LsuAt(k, CATTLE_NON_DAIRY) >= 0
                /\ LsuAt(k, CATTLE_DAIRY) + LsuAt(k, CATTLE_NON_DAIRY)
                      = GenericStock(k) * 100 * 100

\* A run with a dairy share above 100 that split a non-zero generic Cattle
\* stock: all of it went to 'Cattle, dairy'.
C26_Witness ==
    /\ Written
    /\ args.dairy_share > 100
    /\ \E k \in SplitKeys :
          /\ GenericStock(k) > 0
          /\ LsuAt(k, CATTLE_DAIRY) = GenericStock(k) * 100 * 100
          /\ LsuAt(k, CATTLE_NON_DAIRY) = 0

\* The Area names the region sets know, two names outside them, and each
\* with surrounding whitespace.
RegionAreas ==
    LET names == EUROPE_WIDE \cup EU \cup EEA_PLUS_UK \cup {<<"P","e","r","u">>, <<"E","U"," ","(","g","r","o","u","p"," ","t","o","t","a","l",")">>}
    IN  names \cup { a \o <<" ">> : a \in names } \cup { <<" ">> \o a : a \in names }

\* C27: the region flags are nested: for every Area, and for every row of
\* the output, region_EU implies region_EUEEAUK and region_EUEEAUK implies
\* region_europe.
C27_NestedRegions ==
    /\ pc = "start" =>
          \A a \in RegionAreas :
              /\ region_flags(a)[2] => region_flags(a)[3]
              /\ region_flags(a)[3] => region_flags(a)[1]
    /\ \A i \in DOMAIN Out :
          /\ Out[i].region_EU => Out[i].region_EUEEAUK
          /\ Out[i].region_EUEEAUK => Out[i].region_europe

\* A written output with a row of an EU member and a row of a country of the
\* EEA outside the EU.
C27_Witness ==
    /\ Written
    /\ \E i, j \in DOMAIN Out :
          /\ Out[i].region_EU /\ Out[i].region_EUEEAUK /\ Out[i].region_europe
          /\ ~Out[j].region_EU /\ Out[j].region_EUEEAUK /\ Out[j].region_europe

\* The table main() writes for the input of this run under other options;
\* nothing when main() exits with nothing to write.
OutputWith(lt, gwp, split, frac) ==
    Output(Prepared(Melt(Filtered(Canonicalized(rows), lt), year_cols),
                    gwp[1], gwp[2], split, frac))

\* The rows of a table whose Metric is one of metrics, in their order.
RowsOfMetrics(table, metrics) == SelectSeq(table, LAMBDA r : r.Metric \in metrics)

\* The run ended, with an output or with nothing to write.
RunEnded == Written \/ (pc = "exit" /\ exit_msg.kind = "Nothing to write")

\* The rows of this run's output, none when nothing was written.
OutOrNone == IF Written THEN Out ELSE <<>>

\* The GWP pairs of the conventions.
GwpPairs == {<<250, 2980>>, <<280, 2650>>, <<272, 2730>>, <<298, 2730>>}

\* The dairy fractions compared, in hundredths.
FracsCompared == {0, 35, 100}

\* C28: the cattle split affects only LSU, and the GWP convention and the
\* livestock-total restriction affect only the gas metrics: the Stocks,
\* CH4_CO2e, N2O_CO2e and Total_CO2e rows of the output are those the same
\* input gives under every split switch and dairy fraction, and the Stocks
\* and LSU rows are those it gives under every GWP pair and either
\* livestock-total setting.
C28_SplitOnlyLsu ==
    RunEnded =>
        /\ \A s \in BOOLEAN, f \in FracsCompared :
              RowsOfMetrics(OutputWith(only_lt, <<GWP_CH4, GWP_N2O>>, s, f),
                            {"Stocks", "CH4_CO2e", "N2O_CO2e", "Total_CO2e"})
                = RowsOfMetrics(OutOrNone, {"Stocks", "CH4_CO2e", "N2O_CO2e", "Total_CO2e"})
        /\ \A g \in GwpPairs, lt \in BOOLEAN :
              RowsOfMetrics(OutputWith(lt, g, split_cattle, dairy_frac), {"Stocks", "LSU"})
                = RowsOfMetrics(OutOrNone, {"Stocks", "LSU"})

\* A written output where a generic Cattle stock was split and a gas row
\* was scaled.
C28_Witness ==
    /\ Written
    /\ split_cattle
    /\ SplitKeys # {}
    /\ OutRowsOf("Total_CO2e") # <<>>
    /\ OutRowsOf("Stocks") # <<>>

\* C29: in the output item_kind is a function of Item: every row's
\* item_kind is the classification of its Item and its three kind flags say
\* the same, so rows of one Item never differ in item_kind; the LSU rows the
\* split creates carry 'atomic' and generic 'Cattle' rows carry 'aggregated'.
C29_KindOfItem ==
    Written =>
        /\ \A i \in DOMAIN Out :
              /\ Out[i].item_kind = item_kind(Out[i].Item)
              /\ Out[i].is_all = (Out[i].item_kind = "All")
              /\ Out[i].is_aggregated = (Out[i].item_kind = "aggregated")
              /\ Out[i].is_atomic = (Out[i].item_kind = "atomic")
              /\ Out[i].Item \in {CATTLE_DAIRY, CATTLE_NON_DAIRY} => Out[i].item_kind = "atomic"
              /\ Out[i].Item = CATTLE => Out[i].item_kind = "aggregated"
        /\ \A i, j \in DOMAIN Out :
              Out[i].Item = Out[j].Item => Out[i].item_kind = Out[j].item_kind

\* A written output with an LSU row the split created for 'Cattle, dairy',
\* a Stocks row of a source-supplied 'Cattle, dairy', and a Stocks row of
\* the generic 'Cattle'.
C29_Witness ==
    /\ Written
    /\ \E k \in SplitKeys : OutRowsAt(k[1], CATTLE_DAIRY, k[2], "LSU") # <<>>
    /\ \E i, j \in DOMAIN Out :
          /\ Out[i].Metric = "Stocks" /\ Out[i].Item = CATTLE_DAIRY
          /\ Out[j].Metric = "Stocks" /\ Out[j].Item = CATTLE

\* C30: for data with year_min <= year_max the default values given to the
\* sliders lie inside the slider bounds: year_min <= DEFAULT_START <=
\* DEFAULT_END <= year_max for the year range, and the default pie and map
\* year min(2022, year_max) is at least year_min.
C30_DefaultsInBounds ==
    /\ (years_pc \in {"time", "pie", "map"} /\ year_min <= year_max) =>
          /\ year_min <= year_range[1]
          /\ year_range[1] <= year_range[2]
          /\ year_range[2] <= year_max
    /\ (years_pc \in {"pie", "map"} /\ year_min <= year_max) =>
          /\ year_min <= year_pie
          /\ year_pie <= year_max
    /\ (years_pc = "map" /\ year_min <= year_max) =>
          /\ year_min <= year_map
          /\ year_map <= year_max
=============================================================================
